---- MODULE Spec2Model ----
(***************************************************************************)
(* ff-data: the NFL statistics ETL.  The model covers the schedule loaders *)
(* (src/src/nfldb/etl/schedule.py) and the weekly-stats pipeline           *)
(* (src/apps/backend/src/nfldb/etl/stats.py) on top of the relational      *)
(* schema of src/tests/conftest.py.                                        *)
(*                                                                         *)
(* Conventions.  A pandas frame is a record [columns, rows]: the set of    *)
(* column names it has and the sequence of its rows; a row is a record     *)
(* with one field per column of the model, and a field whose column is not *)
(* in `columns` is never read.  A missing number (NaN / None) is NaN, a    *)
(* missing string is NA.  Sack counts are kept in half sacks (1.5 sacks is *)
(* 3), every other statistic is a whole number.  A database table is the   *)
(* set of its rows, each row a record with its surrogate key.              *)
(***************************************************************************)
EXTENDS Integers, Sequences, FiniteSets, TLC

VARIABLES schedule, weekly, db, weekly_df, last, revisions,
          cache, calls, fetched, running, cli, staging

\* The weekly cache files, the provider calls of the last fetch and its
\* outcome.
fetchVars == <<cache, calls, fetched>>

\* The last command-line or ops call and the staging table nfl_weekly_stats.
toolVars == <<cli, staging>>

vars == <<schedule, weekly, db, weekly_df, last, revisions, cache, calls, fetched,
          running, cli, staging>>

-----------------------------------------------------------------------------
(* Bounds of the model. *)

MaxRows == 2

MaxRevisions == 1

-----------------------------------------------------------------------------
(* Missing values and small helpers. *)

NaN == -1

NA == "<NA>"

FillNa0(v) == IF v = NaN THEN 0 ELSE v

Indices(s) == 1..Len(s)

RECURSIVE SumOver(_, _)
SumOver(f, S) ==
    IF S = {} THEN 0
    ELSE LET x == CHOOSE y \in S : TRUE IN f[x] + SumOver(f, S \ {x})

MaxOf(S) == CHOOSE x \in S : \A y \in S : y <= x

\* The subsequence of s at the increasing positions of the set idx.
RECURSIVE Pick(_, _)
Pick(s, idx) ==
    IF idx = {} THEN <<>>
    ELSE LET m == MaxOf(idx) IN Append(Pick(s, idx \ {m}), s[m])

SeqsUpTo(S, n) == UNION {[1..k -> S] : k \in 0..n}

-----------------------------------------------------------------------------
(* The provider feeds: raw weekly frames. *)

SEASON == 2023

TeamCodes == {"KAN", "DET"}

BlankRow ==
    [player_id |-> NA, player_display_name |-> NA, position |-> NA,
     position_group |-> NA, recent_team |-> NA, team |-> NA,
     season |-> SEASON, week |-> 1,
     attempts |-> NaN, passing_yards |-> NaN, rushing_yards |-> NaN,
     interceptions |-> NaN, passing_interceptions |-> NaN,
     sacks |-> NaN, sacks_suffered |-> NaN, def_sacks |-> NaN,
     rushing_fumbles_lost |-> NaN, receiving_fumbles_lost |-> NaN,
     sack_fumbles_lost |-> NaN]

\* The column set of the primary provider schema (conftest write_weekly).
PrimaryColumns ==
    {"player_id", "player_display_name", "position", "position_group",
     "recent_team", "season", "week", "attempts", "passing_yards",
     "rushing_yards", "interceptions", "sacks", "rushing_fumbles_lost",
     "receiving_fumbles_lost", "sack_fumbles_lost"}

\* The alternative provider schema (conftest write_weekly_alt_schema).
AltColumns ==
    (PrimaryColumns \ {"recent_team", "interceptions", "sacks"})
        \cup {"team", "passing_interceptions", "sacks_suffered", "def_sacks"}

AltSchemaRow(r) ==
    [r EXCEPT !.team = r.recent_team,
              !.passing_interceptions = r.interceptions,
              !.sacks_suffered =
                  IF r.position_group = "QB" THEN FillNa0(r.sacks) ELSE 0,
              !.def_sacks =
                  IF r.position_group = "QB" THEN 0 ELSE FillNa0(r.sacks),
              !.recent_team = NA, !.interceptions = NaN, !.sacks = NaN]

AltSchema(frame) ==
    [columns |-> AltColumns,
     rows |-> [i \in Indices(frame.rows) |-> AltSchemaRow(frame.rows[i])]]

NoTargetWeeks == [given |-> FALSE, weeks |-> {}]

TargetWeeks(ws) == [given |-> TRUE, weeks |-> ws]

-----------------------------------------------------------------------------
(* Weekly Frame Normalizer: _clean_weekly_frame. *)

DefenderGroups == {"DL", "LB", "DB"}

\* lines 315-321: the team column, recent_team first.
ResolveTeam(cols, r) ==
    IF "recent_team" \in cols THEN r.recent_team ELSE r.team

\* lines 323-327: the interception column.
ResolveInterceptions(cols, r) ==
    IF "interceptions" \in cols THEN r.interceptions
    ELSE IF "passing_interceptions" \in cols THEN r.passing_interceptions
    ELSE 0

\* lines 329-335
QbSacksSource(cols, r) ==
    IF "sacks" \in cols THEN r.sacks
    ELSE IF "sacks_suffered" \in cols THEN r.sacks_suffered
    ELSE 0

\* lines 337-343
DefenderSacksSource(cols, r) ==
    IF "def_sacks" \in cols THEN r.def_sacks
    ELSE IF "sacks" \in cols THEN r.sacks
    ELSE 0

\* lines 345-348: df.get("position_group") with NaN filled by "".
PositionGroup(cols, r) ==
    IF "position_group" \in cols /\ r.position_group # NA
    THEN r.position_group ELSE ""

\* lines 350-351, one entry per row of the unfiltered frame.
QbMask(cols, r) == PositionGroup(cols, r) = "QB"

DefenderMask(cols, r) == PositionGroup(cols, r) \in DefenderGroups

\* lines 353-354
QbSacksValues(cols, r) == FillNa0(QbSacksSource(cols, r))

DefenderSacksValues(cols, r) == FillNa0(DefenderSacksSource(cols, r))

\* lines 356-360: the role-disambiguated sacks column, written before the
\* row filter, so row by row.
RoleSacks(cols, r) ==
    IF DefenderMask(cols, r) THEN DefenderSacksValues(cols, r)
    ELSE IF QbMask(cols, r) THEN QbSacksValues(cols, r)
    ELSE 0

\* lines 362-365 and 370-371: the rows the filter keeps.
\* A filter that ignores the week allow-list.
KeepRowAnyWeek(cols, r, target_weeks) ==
    /\ r.player_id # NA
    /\ r.player_id # ""
    /\ ResolveTeam(cols, r) # NA
    /\ ResolveTeam(cols, r) # "TOT"

KeepRow(cols, r, target_weeks) ==
    /\ r.player_id # NA
    /\ r.player_id # ""
    /\ ResolveTeam(cols, r) # NA
    /\ ResolveTeam(cols, r) # "TOT"
    /\ (target_weeks.given => r.week \in target_weeks.weeks)

\* lines 376-381
FumblesTotal(cols, r) ==
    (IF "rushing_fumbles_lost" \in cols THEN FillNa0(r.rushing_fumbles_lost) ELSE 0)
    + (IF "receiving_fumbles_lost" \in cols THEN FillNa0(r.receiving_fumbles_lost) ELSE 0)
    + (IF "sack_fumbles_lost" \in cols THEN FillNa0(r.sack_fumbles_lost) ELSE 0)

\* Interceptions counted for every position group.
TurnoversOfAnyone(cols, r) ==
    FillNa0(ResolveInterceptions(cols, r)) + FumblesTotal(cols, r)

\* lines 382-385: df["position_group"] of the filtered frame, NaN is not "QB".
Turnovers(cols, r) ==
    (IF r.position_group = "QB" THEN FillNa0(ResolveInterceptions(cols, r)) ELSE 0)
    + FumblesTotal(cols, r)

\* The columns _clean_weekly_frame indexes with df[...]: a missing one is a
\* KeyError (lines 319, 362, 368, 369, 383).
CleanKeyError(cols) ==
    \/ {"recent_team", "team"} \cap cols = {}
    \/ ~({"player_id", "season", "week", "position_group"} \subseteq cols)

\* lines 372-375: after reset_index the kept rows are labelled 0..m-1, while
\* qb_sacks_values, defender_sacks_values and the two masks still carry the
\* labels of the unfiltered frame; assigning a Series to a column aligns on
\* the label, so the kept row at position j receives the entry of the
\* unfiltered row at position j.
AlignedSource(frame, j, own) == frame.rows[j]

CleanRow(frame, j, own) ==
    LET cols == frame.columns
        r == frame.rows[own]
        a == AlignedSource(frame, j, own)
    IN  [player_id |-> r.player_id,
         player_display_name |-> r.player_display_name,
         position |-> r.position,
         position_group |-> r.position_group,
         recent_team |-> ResolveTeam(cols, r),
         season |-> r.season, week |-> r.week,
         attempts |-> r.attempts,
         passing_yards |-> r.passing_yards,
         rushing_yards |-> r.rushing_yards,
         interceptions |-> ResolveInterceptions(cols, r),
         sacks |-> RoleSacks(cols, r),
         sacks_allowed |-> IF QbMask(cols, a) THEN QbSacksValues(cols, a) ELSE 0,
         def_sacks |-> IF DefenderMask(cols, a) THEN DefenderSacksValues(cols, a) ELSE 0,
         fumbles_total |-> FumblesTotal(cols, r),
         turnovers |-> Turnovers(cols, r),
         source_row |-> own]

CleanWeeklyFrame(frame, target_weeks) ==
    IF CleanKeyError(frame.columns)
    THEN [error |-> "KeyError", rows |-> <<>>]
    ELSE LET kept == {i \in Indices(frame.rows) :
                        KeepRow(frame.columns, frame.rows[i], target_weeks)}
             order == Pick([i \in Indices(frame.rows) |-> i], kept)
         IN  [error |-> "",
              rows |-> [j \in 1..Len(order) |-> CleanRow(frame, j, order[j])]]

NoFrame == [error |-> "", rows |-> <<>>]

-----------------------------------------------------------------------------
(* The schedule feed: one row per game (what _load_schedule_df returns). *)

\* str(week).isdigit() / int(week): the week labels of the feed that are
\* plain integers, with their value; any other label is a playoff round.
WeekNumberOf == ("1" :> 1) @@ ("2" :> 2)

IsDigitWeek(w) == w \in DOMAIN WeekNumberOf

\* A lookup that lists each game under its home team only.
RECURSIVE PrepareScheduleLookupHomeOnly(_)
PrepareScheduleLookupHomeOnly(sched) ==
    IF sched = <<>> THEN <<>>
    ELSE LET row == Head(sched)
             rest == PrepareScheduleLookupHomeOnly(Tail(sched))
         IN  IF ~IsDigitWeek(row.week) THEN rest
             ELSE <<[season |-> row.season, week |-> WeekNumberOf[row.week],
                     team_code |-> row.home_team, game_id |-> row.game_id,
                     points |-> row.home_score]>> \o rest

\* _prepare_schedule_lookup: two rows per regular-season game.
RECURSIVE PrepareScheduleLookup(_)
PrepareScheduleLookup(sched) ==
    IF sched = <<>> THEN <<>>
    ELSE LET row == Head(sched)
             rest == PrepareScheduleLookup(Tail(sched))
         IN  IF ~IsDigitWeek(row.week) THEN rest
             ELSE <<[season |-> row.season, week |-> WeekNumberOf[row.week],
                     team_code |-> row.home_team, game_id |-> row.game_id,
                     points |-> row.home_score],
                    [season |-> row.season, week |-> WeekNumberOf[row.week],
                     team_code |-> row.away_team, game_id |-> row.game_id,
                     points |-> row.away_score]>> \o rest

\* _load_team_meta: the team description feed.
TeamMeta ==
    <<[team_abbr |-> "KAN", team_name |-> "Kansas City Chiefs"],
      [team_abbr |-> "DET", team_name |-> "Detroit Lions"]>>

-----------------------------------------------------------------------------
(* The relational store (conftest _create_schema). *)

EmptyDb ==
    [seasons |-> {}, teams |-> {}, weeks |-> {}, games |-> {}, players |-> {},
     team_game_stats |-> {}, player_game_stats |-> {}]

\* INTEGER PRIMARY KEY: the next surrogate key of a table.
NextId(tbl, key) == IF tbl = {} THEN 1 ELSE MaxOf({r[key] : r \in tbl}) + 1

Ok(d) == [db |-> d, error |-> ""]

Failed(d, e) == [db |-> d, error |-> e]

-----------------------------------------------------------------------------
(* load_seasons_and_weeks *)

\* INSERT INTO seasons ... ON CONFLICT (year) DO NOTHING, one year.
\* An insert without ON CONFLICT (year) DO NOTHING on a table without the
\* unique constraint.
InsertSeasonAgain(seasons, year) ==
    seasons \cup {[season_id |-> NextId(seasons, "season_id"), year |-> year]}

\* lines 94-95, one record: INSERT INTO seasons ... ON CONFLICT (year) DO
\* NOTHING.
InsertSeason(seasons, year) ==
    IF \E s \in seasons : s.year = year THEN seasons
    ELSE seasons \cup {[season_id |-> NextId(seasons, "season_id"), year |-> year]}

RECURSIVE InsertSeasons(_, _)
InsertSeasons(seasons, years) ==
    IF years = <<>> THEN seasons
    ELSE InsertSeasons(InsertSeason(seasons, Head(years)), Tail(years))

\* INSERT INTO teams ... ON CONFLICT (team_code) DO UPDATE, one record.
UpsertTeam(teams, rec) ==
    IF \E t \in teams : t.team_code = rec.team_code
    THEN {IF t.team_code = rec.team_code
          THEN [t EXCEPT !.team_name = rec.team_name] ELSE t : t \in teams}
    ELSE teams \cup {[team_id |-> NextId(teams, "team_id"),
                      team_code |-> rec.team_code, team_name |-> rec.team_name]}

RECURSIVE UpsertTeams(_, _)
UpsertTeams(teams, recs) ==
    IF recs = <<>> THEN teams
    ELSE UpsertTeams(UpsertTeam(teams, Head(recs)), Tail(recs))

\* INSERT INTO weeks ... SELECT ... FROM seasons WHERE year = :season
\* ON CONFLICT (season_id, week_number) DO UPDATE, one payload row.
UpsertWeek(d, rec) ==
    LET ss == {s \in d.seasons : s.year = rec.season}
    IN  IF ss = {} THEN d.weeks
        ELSE LET sid == (CHOOSE s \in ss : TRUE).season_id
                 hit == {w \in d.weeks :
                           w.season_id = sid /\ w.week_number = rec.week_number}
             IN  IF hit # {}
                 THEN {IF w \in hit
                       THEN [w EXCEPT !.start_date = rec.start_date,
                                      !.end_date = rec.end_date]
                       ELSE w : w \in d.weeks}
                 ELSE d.weeks \cup
                        {[week_id |-> NextId(d.weeks, "week_id"), season_id |-> sid,
                          week_number |-> rec.week_number,
                          start_date |-> rec.start_date, end_date |-> rec.end_date]}

RECURSIVE UpsertWeeks(_, _)
UpsertWeeks(d, recs) ==
    IF recs = <<>> THEN d
    ELSE UpsertWeeks([d EXCEPT !.weeks = UpsertWeek(d, Head(recs))], Tail(recs))

\* The regular-season rows of the feed, week as an integer (lines 66-67, 160-161).
RegularSeason(sched) ==
    LET keep == {i \in Indices(sched) : IsDigitWeek(sched[i].week)}
        rows == Pick(sched, keep)
    IN  [i \in Indices(rows) |-> [rows[i] EXCEPT !.week = WeekNumberOf[rows[i].week]]]

MinOf(S) == CHOOSE x \in S : \A y \in S : x <= y

\* lines 71-75 and 112-120: one week record per (season, week) of the feed.
WeekPayload(df, years, weekNumbers) ==
    LET groups == {<<y, w>> \in years \X weekNumbers :
                     \E i \in Indices(df) : df[i].season = y /\ df[i].week = w}
        days(g) == {df[i].gameday : i \in {k \in Indices(df) :
                        df[k].season = g[1] /\ df[k].week = g[2]}}
        rec(g) == [season |-> g[1], week_number |-> g[2],
                   start_date |-> MinOf(days(g)), end_date |-> MaxOf(days(g))]
        RECURSIVE Build(_)
        Build(S) == IF S = {} THEN <<>>
                    ELSE LET g == CHOOSE x \in S : \A y \in S :
                                     x[1] < y[1] \/ (x[1] = y[1] /\ x[2] <= y[2])
                         IN  <<rec(g)>> \o Build(S \ {g})
    IN  Build(groups)

\* lines 78-89: the team records, team_meta restricted to the feed's teams.
TeamRecords(df) ==
    LET codes == {df[i].home_team : i \in Indices(df)}
                   \cup {df[i].away_team : i \in Indices(df)}
        keep == {i \in Indices(TeamMeta) : TeamMeta[i].team_abbr \in codes}
        rows == Pick(TeamMeta, keep)
    IN  [i \in Indices(rows) |->
            [team_code |-> rows[i].team_abbr, team_name |-> rows[i].team_name]]

RangeSeq(a, b) == [i \in 1..(b - a + 1) |-> a + i - 1]

\* lines 91-132: the single transaction of load_seasons_and_weeks.
LoadSeasonsAndWeeksTx(d, sched, season_start, season_end) ==
    LET df == RegularSeason(sched)
        d1 == [d EXCEPT !.seasons = InsertSeasons(d.seasons,
                                        RangeSeq(season_start, season_end))]
        d2 == [d1 EXCEPT !.teams = UpsertTeams(d1.teams, TeamRecords(df))]
    IN  Ok(UpsertWeeks(d2, WeekPayload(df, {df[i].season : i \in Indices(df)},
                                       {df[i].week : i \in Indices(df)})))

-----------------------------------------------------------------------------
(* load_games *)

\* lines 167-180: the winner of a game, None for a tie or a missing score.
Winner(row) ==
    IF row.home_score # NaN /\ row.away_score # NaN /\ row.home_score > row.away_score
    THEN row.home_team
    ELSE IF row.home_score # NaN /\ row.away_score # NaN
            /\ row.away_score > row.home_score
    THEN row.away_team
    ELSE NA

\* lines 187-207
GamePayload(df) ==
    [i \in Indices(df) |->
        [game_id |-> df[i].game_id, season |-> df[i].season,
         week_number |-> df[i].week, home_team |-> df[i].home_team,
         away_team |-> df[i].away_team, home_points |-> df[i].home_score,
         away_points |-> df[i].away_score, winner |-> Winner(df[i])]]

TeamIdOf(d, code) ==
    IF \E t \in d.teams : t.team_code = code
    THEN (CHOOSE t \in d.teams : t.team_code = code).team_id
    ELSE NaN

\* The rows the SELECT of lines 216-224 yields for one payload record: the
\* joins on weeks, seasons, home and away; fav and win are LEFT JOINs.
GameSelect(d, p) ==
    {[nflfast_game_id |-> p.game_id, week_id |-> w.week_id,
      home_team_id |-> h.team_id, away_team_id |-> a.team_id,
      home_points |-> p.home_points, away_points |-> p.away_points,
      winner_team_id |-> TeamIdOf(d, p.winner)] :
        <<w, h, a>> \in
            {x \in d.weeks \X d.teams \X d.teams :
                /\ x[1].week_number = p.week_number
                /\ \E s \in d.seasons :
                      s.season_id = x[1].season_id /\ s.year = p.season
                /\ x[2].team_code = p.home_team
                /\ x[3].team_code = p.away_team}}

SameMatchup(g, n) ==
    /\ g.week_id = n.week_id
    /\ g.home_team_id = n.home_team_id
    /\ g.away_team_id = n.away_team_id

\* ON CONFLICT ... DO NOTHING instead of DO UPDATE.
UpsertGameKeeping(games, n) ==
    IF \E g \in games : SameMatchup(g, n) \/ g.nflfast_game_id = n.nflfast_game_id
    THEN Ok(games)
    ELSE Ok(games \cup {[game_id |-> NextId(games, "game_id")] @@ n})

\* lines 213-236 for one selected row n: the arbiter of ON CONFLICT is
\* UNIQUE (week_id, home_team_id, away_team_id); a clash on the other unique
\* column, nflfast_game_id, is an IntegrityError.
UpsertGame(games, n) ==
    LET hit == {g \in games : SameMatchup(g, n)}
        clash == {g \in games \ hit : g.nflfast_game_id = n.nflfast_game_id}
    IN  IF clash # {} THEN Failed(games, "IntegrityError")
        ELSE IF hit # {}
        THEN Ok({IF g \in hit
                 THEN [g EXCEPT !.nflfast_game_id = n.nflfast_game_id,
                                !.home_points = n.home_points,
                                !.away_points = n.away_points,
                                !.winner_team_id = n.winner_team_id]
                 ELSE g : g \in games})
        ELSE Ok(games \cup {[game_id |-> NextId(games, "game_id")] @@ n})

RECURSIVE UpsertGames(_, _)
UpsertGames(d, payload) ==
    IF payload = <<>> THEN Ok(d)
    ELSE LET sel == GameSelect(d, Head(payload))
         IN  IF sel = {} THEN UpsertGames(d, Tail(payload))
             ELSE LET r == UpsertGame(d.games, CHOOSE n \in sel : TRUE)
                  IN  IF r.error # "" THEN Failed(d, r.error)
                      ELSE UpsertGames([d EXCEPT !.games = r.db], Tail(payload))

\* load_games that passes every week of the feed to the insert.
LoadGamesTxAnyWeek(d, sched, target_weeks) ==
    LET r == UpsertGames(d, GamePayload(RegularSeason(sched)))
    IN  IF r.error # "" THEN Failed(d, r.error) ELSE r

\* lines 158-164 and 209-239: the single transaction of load_games; an error
\* rolls the whole batch back.
LoadGamesTx(d, sched, target_weeks) ==
    LET all == RegularSeason(sched)
        keep == {i \in Indices(all) :
                    target_weeks.given => all[i].week \in target_weeks.weeks}
        r == UpsertGames(d, GamePayload(Pick(all, keep)))
    IN  IF r.error # "" THEN Failed(d, r.error) ELSE r

-----------------------------------------------------------------------------
(* load_weekly_stats: players, team aggregation, team and player upserts. *)

\* The batch inserts of one load_weekly_stats call, in call order; a call
\* may suffer a database fault in one of them.
Faults == {"none", "players", "team_game_stats", "player_game_stats"}

\* lines 390-410: one record per player id, the first row of each id;
\* position "" becomes None.
PlayerRecords(rows) ==
    LET first == {i \in Indices(rows) :
                    \A k \in 1..(i - 1) : rows[k].player_id # rows[i].player_id}
        info == Pick(rows, first)
        keep == {i \in Indices(info) : info[i].player_id # ""}
        recs == Pick(info, keep)
    IN  [i \in Indices(recs) |->
            [gsis_id |-> recs[i].player_id,
             full_name |-> recs[i].player_display_name,
             position |-> IF recs[i].position = "" THEN NA ELSE recs[i].position]]

\* ON CONFLICT (gsis_id) DO NOTHING instead of DO UPDATE.
UpsertPlayerKeeping(players, rec) ==
    IF \E p \in players : p.gsis_id = rec.gsis_id
    THEN players
    ELSE players \cup {[player_id |-> NextId(players, "player_id"),
                        gsis_id |-> rec.gsis_id, full_name |-> rec.full_name,
                        position |-> rec.position]}

\* lines 417-426, one record: ON CONFLICT (gsis_id) DO UPDATE.
UpsertPlayer(players, rec) ==
    IF \E p \in players : p.gsis_id = rec.gsis_id
    THEN {IF p.gsis_id = rec.gsis_id
          THEN [p EXCEPT !.full_name = rec.full_name, !.position = rec.position]
          ELSE p : p \in players}
    ELSE players \cup {[player_id |-> NextId(players, "player_id"),
                        gsis_id |-> rec.gsis_id, full_name |-> rec.full_name,
                        position |-> rec.position]}

RECURSIVE UpsertPlayerRecords(_, _)
UpsertPlayerRecords(players, recs) ==
    IF recs = <<>> THEN players
    ELSE UpsertPlayerRecords(UpsertPlayer(players, Head(recs)), Tail(recs))

\* A synchronizing load: the players the frame does not list are deleted
\* before the upsert.
UpsertPlayersReplacing(d, rows, fault) ==
    LET recs == PlayerRecords(rows)
        listed == {p \in d.players :
                      \E i \in Indices(recs) : recs[i].gsis_id = p.gsis_id}
    IN  IF recs = <<>> THEN Ok(d)
        ELSE IF fault = "players" THEN Failed(d, "PersistenceFailure")
        ELSE Ok([d EXCEPT !.players = UpsertPlayerRecords(listed, recs)])

\* _upsert_players: its own transaction (engine.begin, lines 415-426).
UpsertPlayers(d, rows, fault) ==
    LET recs == PlayerRecords(rows)
    IN  IF recs = <<>> THEN Ok(d)
        ELSE IF fault = "players" THEN Failed(d, "PersistenceFailure")
        ELSE Ok([d EXCEPT !.players = UpsertPlayerRecords(d.players, recs)])

\* groupby(...).agg(sum): NaN cells are skipped.
SumColumn(rows, idx, col) ==
    SumOver([i \in idx |-> FillNa0(rows[i][col])], idx)

\* groupby sorts its keys; the order of the team codes.
TeamRank == ("DET" :> 1) @@ ("KAN" :> 2) @@ ("TOT" :> 3)

GroupBefore(x, y) ==
    \/ x[1] < y[1]
    \/ x[1] = y[1] /\ x[2] < y[2]
    \/ x[1] = y[1] /\ x[2] = y[2] /\ TeamRank[x[3]] <= TeamRank[y[3]]

\* _aggregate_team_stats: one row per (season, week, recent_team).
AggregateTeamStats(rows) ==
    LET keys == {<<rows[i].season, rows[i].week, rows[i].recent_team>> :
                    i \in Indices(rows)}
        members(k) == {i \in Indices(rows) :
                         <<rows[i].season, rows[i].week, rows[i].recent_team>> = k}
        group(k) ==
            LET pass == SumColumn(rows, members(k), "passing_yards")
                rush == SumColumn(rows, members(k), "rushing_yards")
            IN  [season |-> k[1], week |-> k[2], team_code |-> k[3],
                 pass_yards |-> pass, rush_yards |-> rush,
                 sacks_allowed |-> SumColumn(rows, members(k), "sacks_allowed"),
                 sacks_made |-> SumColumn(rows, members(k), "def_sacks"),
                 turnovers |-> SumColumn(rows, members(k), "turnovers"),
                 yards |-> pass + rush]
        RECURSIVE Build(_)
        Build(S) == IF S = {} THEN <<>>
                    ELSE LET k == CHOOSE x \in S : \A y \in S : GroupBefore(x, y)
                         IN  <<group(k)>> \o Build(S \ {k})
    IN  Build(keys)

\* _to_int on a whole number, and on a count of half sacks:
\* int(round(float(value))), Python rounding a half to the even neighbour.
ToInt(value) == value

\* int(value): truncation instead of rounding.
TruncateHalves(h) == IF h = NaN THEN NaN ELSE h \div 2

ToIntHalves(h) ==
    IF h = NaN THEN NaN
    ELSE LET q == h \div 2
         IN  IF h % 2 = 0 THEN q ELSE IF q % 2 = 0 THEN q ELSE q + 1

\* merge(lookup, how="left") followed by game_id.notna(): the lookup rows
\* that match a (season, week, team), in lookup order.
Matches(lookup, season, week, team) ==
    Pick(lookup, {i \in Indices(lookup) :
                    /\ lookup[i].season = season
                    /\ lookup[i].week = week
                    /\ lookup[i].team_code = team})

\* lines 456-474: one record per (team-stats row, matching lookup row).
RECURSIVE TeamStatRecords(_, _)
TeamStatRecords(team_stats, lookup) ==
    IF team_stats = <<>> THEN <<>>
    ELSE LET row == Head(team_stats)
             m == Matches(lookup, row.season, row.week, row.team_code)
         IN  [i \in Indices(m) |->
                [game_key |-> m[i].game_id, team_code |-> row.team_code,
                 season |-> row.season, week |-> row.week,
                 points |-> ToInt(m[i].points),
                 yards |-> ToInt(row.yards),
                 pass_yards |-> ToInt(row.pass_yards),
                 rush_yards |-> ToInt(row.rush_yards),
                 sacks_made |-> ToIntHalves(row.sacks_made),
                 sacks_allowed |-> ToIntHalves(row.sacks_allowed),
                 turnovers |-> ToInt(row.turnovers)]]
             \o TeamStatRecords(Tail(team_stats), lookup)

TeamStatValues(rec) ==
    [points |-> rec.points, yards |-> rec.yards, pass_yards |-> rec.pass_yards,
     rush_yards |-> rec.rush_yards, sacks_made |-> rec.sacks_made,
     sacks_allowed |-> rec.sacks_allowed, turnovers |-> rec.turnovers]

\* A conflict policy that accumulates instead of replacing.
UpsertTeamStatRowAdding(tbl, game_id, team_id, rec) ==
    IF \E s \in tbl : s.game_id = game_id /\ s.team_id = team_id
    THEN {IF s.game_id = game_id /\ s.team_id = team_id
          THEN [s EXCEPT !.yards = @ + rec.yards,
                         !.pass_yards = @ + rec.pass_yards,
                         !.rush_yards = @ + rec.rush_yards]
          ELSE s : s \in tbl}
    ELSE tbl \cup {[team_game_stats_id |-> NextId(tbl, "team_game_stats_id"),
                    game_id |-> game_id, team_id |-> team_id]
                       @@ TeamStatValues(rec)}

\* lines 483-497, one row (game_id, team_id) of the SELECT:
\* ON CONFLICT (game_id, team_id) DO UPDATE SET every statistic.
UpsertTeamStatRow(tbl, game_id, team_id, rec) ==
    IF \E s \in tbl : s.game_id = game_id /\ s.team_id = team_id
    THEN {IF s.game_id = game_id /\ s.team_id = team_id
          THEN [team_game_stats_id |-> s.team_game_stats_id,
                game_id |-> game_id, team_id |-> team_id] @@ TeamStatValues(rec)
          ELSE s : s \in tbl}
    ELSE tbl \cup {[team_game_stats_id |-> NextId(tbl, "team_game_stats_id"),
                    game_id |-> game_id, team_id |-> team_id]
                       @@ TeamStatValues(rec)}

\* The SELECT of lines 485-489: games g JOIN teams t, for one record.
TeamStatSelect(d, rec) ==
    {<<g.game_id, t.team_id>> :
        <<g, t>> \in {x \in d.games \X d.teams :
                        /\ x[1].nflfast_game_id = rec.game_key
                        /\ x[2].team_code = rec.team_code}}

RECURSIVE UpsertTeamStatRecords(_, _)
UpsertTeamStatRecords(d, recs) ==
    IF recs = <<>> THEN d
    ELSE LET sel == TeamStatSelect(d, Head(recs))
             tbl == IF sel = {} THEN d.team_game_stats
                    ELSE LET k == CHOOSE x \in sel : TRUE
                         IN  UpsertTeamStatRow(d.team_game_stats, k[1], k[2], Head(recs))
         IN  UpsertTeamStatRecords([d EXCEPT !.team_game_stats = tbl], Tail(recs))

\* _upsert_team_stats: the merge needs the lookup's key columns, and a lookup
\* built from no record has no column at all (KeyError); then its own
\* transaction (lines 479-500).
UpsertTeamStats(d, team_stats, lookup, fault) ==
    IF lookup = <<>> THEN Failed(d, "KeyError")
    ELSE LET recs == TeamStatRecords(team_stats, lookup)
         IN  IF recs = <<>> THEN Ok(d)
             ELSE IF fault = "team_game_stats" THEN Failed(d, "PersistenceFailure")
             ELSE Ok(UpsertTeamStatRecords(d, recs))

\* _prepare_player_payload: the cleaned rows joined to their games.
RECURSIVE PreparePlayerPayload(_, _)
PreparePlayerPayload(rows, lookup) ==
    IF rows = <<>> THEN <<>>
    ELSE LET row == Head(rows)
             m == Matches(lookup, row.season, row.week, row.recent_team)
         IN  [i \in Indices(m) |->
                [game_id |-> m[i].game_id, row |-> row,
                 fumbles |-> FillNa0(row.fumbles_total)]]
             \o PreparePlayerPayload(Tail(rows), lookup)

\* _nullable: NaN becomes None, which the model writes NaN as well.
Nullable(value) == IF value = NaN THEN NaN ELSE value

\* lines 520-547: the bound parameters of one player row.
PlayerStatRecord(m) ==
    [game_key |-> m.game_id, season |-> m.row.season, week |-> m.row.week,
     team_code |-> m.row.recent_team, player_gsis |-> m.row.player_id,
     position |-> IF m.row.position = "" THEN NA ELSE m.row.position,
     pass_att |-> Nullable(m.row.attempts),
     pass_yds |-> Nullable(m.row.passing_yards),
     int_thrown |-> Nullable(m.row.interceptions),
     rush_yds |-> Nullable(m.row.rushing_yards),
     sacks |-> Nullable(m.row.sacks),
     fumbles |-> Nullable(m.fumbles)]

PlayerStatValues(rec) ==
    [position |-> rec.position, pass_att |-> rec.pass_att,
     pass_yds |-> rec.pass_yds, int_thrown |-> rec.int_thrown,
     rush_yds |-> rec.rush_yds, sacks |-> rec.sacks, fumbles |-> rec.fumbles]

\* The SELECT of lines 557-565 for one record: games, teams, seasons, weeks
\* and players joined on their natural keys.
PlayerStatSelect(d, rec) ==
    {[game_id |-> x[1].game_id, player_id |-> x[4].player_id,
      team_id |-> x[2].team_id, week_id |-> x[3].week_id] :
        x \in {y \in d.games \X d.teams \X d.weeks \X d.players :
                 /\ y[1].nflfast_game_id = rec.game_key
                 /\ y[2].team_code = rec.team_code
                 /\ y[3].week_number = rec.week
                 /\ \E s \in d.seasons :
                       s.year = rec.season /\ s.season_id = y[3].season_id
                 /\ y[4].gsis_id = rec.player_gsis}}

\* An insert without the ON CONFLICT clause on a table without the unique
\* constraint.
InsertPlayerStatRow(tbl, k, rec) ==
    tbl \cup {[player_game_stats_id |-> NextId(tbl, "player_game_stats_id")]
                  @@ k @@ PlayerStatValues(rec)}

\* lines 553-582, one selected row: ON CONFLICT (game_id, player_id) DO
\* UPDATE SET position and the statistics; team_id and week_id are not in
\* the SET list.
UpsertPlayerStatRow(tbl, k, rec) ==
    IF \E s \in tbl : s.game_id = k.game_id /\ s.player_id = k.player_id
    THEN {IF s.game_id = k.game_id /\ s.player_id = k.player_id
          THEN [player_game_stats_id |-> s.player_game_stats_id,
                game_id |-> s.game_id, player_id |-> s.player_id,
                team_id |-> s.team_id, week_id |-> s.week_id]
                   @@ PlayerStatValues(rec)
          ELSE s : s \in tbl}
    ELSE tbl \cup {[player_game_stats_id |-> NextId(tbl, "player_game_stats_id")]
                       @@ k @@ PlayerStatValues(rec)}

RECURSIVE UpsertPlayerStatRecords(_, _)
UpsertPlayerStatRecords(d, recs) ==
    IF recs = <<>> THEN d
    ELSE LET sel == PlayerStatSelect(d, Head(recs))
             tbl == IF sel = {} THEN d.player_game_stats
                    ELSE UpsertPlayerStatRow(d.player_game_stats,
                                             CHOOSE x \in sel : TRUE, Head(recs))
         IN  UpsertPlayerStatRecords([d EXCEPT !.player_game_stats = tbl], Tail(recs))

\* _upsert_player_stats: its own transaction (lines 549-585).
UpsertPlayerStats(d, payload, fault) ==
    IF payload = <<>> THEN Ok(d)
    ELSE IF fault = "player_game_stats" THEN Failed(d, "PersistenceFailure")
    ELSE Ok(UpsertPlayerStatRecords(d,
                [i \in Indices(payload) |-> PlayerStatRecord(payload[i])]))

\* load_weekly_stats, lines 596-609: the steps in order, each database step
\* committing on its own; the first error ends the call.
LoadWeeklyStatsRun(d, sched, frame, target_weeks, fault) ==
    LET lookup == PrepareScheduleLookup(sched)
        cleaned == CleanWeeklyFrame(frame, target_weeks)
        r1 == UpsertPlayers(d, cleaned.rows, fault)
        r2 == UpsertTeamStats(r1.db, AggregateTeamStats(cleaned.rows), lookup, fault)
        r3 == UpsertPlayerStats(r2.db, PreparePlayerPayload(cleaned.rows, lookup), fault)
    IN  IF cleaned.error # "" THEN [db |-> d, error |-> cleaned.error, weekly_df |-> NoFrame]
        ELSE IF r1.error # "" THEN [db |-> r1.db, error |-> r1.error, weekly_df |-> cleaned]
        ELSE IF r2.error # "" THEN [db |-> r2.db, error |-> r2.error, weekly_df |-> cleaned]
        ELSE [db |-> r3.db, error |-> r3.error, weekly_df |-> cleaned]

-----------------------------------------------------------------------------
(* Staging: the raw table nfl_weekly_stats, a table without keys, kept as
   the sequence of its rows. *)

\* lines 211-224: the staged columns of a normalized row; recent_team is
\* staged as team, interceptions as passing_interceptions, sacks as
\* sacks_suffered (_STAGING_COLUMN_RENAMES).
StagingRow(row) ==
    [season |-> row.season, week |-> row.week, player_id |-> row.player_id,
     team |-> row.recent_team, passing_yards |-> row.passing_yards,
     passing_interceptions |-> row.interceptions, sacks_suffered |-> row.sacks]

Remove(tbl, gone(_)) == Pick(tbl, {i \in Indices(tbl) : ~gone(tbl[i])})

\* _delete_existing_rows (lines 178-195): per season and week when weeks
\* are given and not empty, per season otherwise.
DeleteExistingRows(tbl, seasons, week_filter) ==
    LET byWeek(r) == r.season \in seasons /\ r.week \in week_filter.weeks
        bySeason(r) == r.season \in seasons
    IN  IF seasons = {} THEN tbl
        ELSE IF week_filter.given /\ week_filter.weeks # {} THEN Remove(tbl, byWeek)
        ELSE Remove(tbl, bySeason)

\* Staging that appends the frame to what is stored.
StageWeeklyStatsAppending(tbl, rows, target_weeks, fault) ==
    IF rows = <<>> THEN [staging |-> tbl, error |-> ""]
    ELSE IF fault = "staging" THEN [staging |-> tbl, error |-> "PersistenceFailure"]
    ELSE [staging |-> tbl \o [i \in Indices(rows) |-> StagingRow(rows[i])],
          error |-> ""]

\* _stage_weekly_stats (lines 198-276): nothing for an empty frame;
\* otherwise the delete and the insert in one transaction, which a database
\* fault rolls back.
StageWeeklyStats(tbl, rows, target_weeks, fault) ==
    LET seasons == {rows[i].season : i \in {k \in Indices(rows) : rows[k].season # NaN}}
    IN  IF rows = <<>> THEN [staging |-> tbl, error |-> ""]
        ELSE IF fault = "staging" THEN [staging |-> tbl, error |-> "PersistenceFailure"]
        ELSE [staging |-> DeleteExistingRows(tbl, seasons, target_weeks)
                              \o [i \in Indices(rows) |-> StagingRow(rows[i])],
              error |-> ""]

\* load_weekly_stats(..., stage_raw=True), lines 596-609: the staging step
\* after the normalizer and before the upserts.
LoadWeeklyStatsStagedRun(d, stg, sched, frame, target_weeks, fault) ==
    LET cleaned == CleanWeeklyFrame(frame, target_weeks)
        staged == StageWeeklyStats(stg, cleaned.rows, target_weeks, fault)
        r == LoadWeeklyStatsRun(d, sched, frame, target_weeks, fault)
    IN  IF cleaned.error # ""
        THEN [db |-> d, staging |-> stg, error |-> cleaned.error, weekly_df |-> NoFrame]
        ELSE IF staged.error # ""
        THEN [db |-> d, staging |-> stg, error |-> staged.error, weekly_df |-> cleaned]
        ELSE [db |-> r.db, staging |-> staged.staging, error |-> r.error,
              weekly_df |-> r.weekly_df]

-----------------------------------------------------------------------------
(* ops/weekly.py: the week to refresh. *)

\* _PLAYOFF_WEEK_MAP (lines 23-34).
PlayoffWeekMap ==
    ("wildcard" :> 19) @@ ("wild card" :> 19) @@ ("divisional" :> 20)
        @@ ("division" :> 20) @@ ("conference championships" :> 21)
        @@ ("conference championship" :> 21) @@ ("conference" :> 21)
        @@ ("conference champ" :> 21) @@ ("championship" :> 21)
        @@ ("super bowl" :> 22)

\* str.lower() on the labels a feed carries.
LowerCase ==
    ("Wildcard" :> "wildcard") @@ ("Divisional" :> "divisional")
        @@ ("Conference Championships" :> "conference championships")
        @@ ("Super Bowl" :> "super bowl") @@ ("Pro Bowl" :> "pro bowl")
        @@ ("WC" :> "wc")

Lower(text) == IF text \in DOMAIN LowerCase THEN LowerCase[text] ELSE text

\* _normalize_week (lines 45-57): a number as it is, a playoff round by the
\* map, anything else None.
NormalizeWeek(value) ==
    IF IsDigitWeek(value) THEN WeekNumberOf[value]
    ELSE IF Lower(value) \in DOMAIN PlayoffWeekMap THEN PlayoffWeekMap[Lower(value)]
    ELSE NaN

\* A moment: its calendar year and its place on the time axis the kickoffs
\* are on.
Moment(year, at) == [year |-> year, at |-> at]

NoTarget == <<>>

WeekTarget(season, week) == <<[season |-> season, week |-> week]>>

\* (season, week) in sort_values order.
EarlierWeek(a, b) ==
    a.season < b.season \/ (a.season = b.season /\ a.week <= b.week)

\* A resolver that answers week 1 of the year when nothing has kicked off.
ResolveTargetWeekLenient(sched, as_of) ==
    LET candidate_seasons == {as_of.year - 1, as_of.year}
        frame == Pick(sched, {i \in Indices(sched) :
                                 sched[i].season \in candidate_seasons})
        working == {[season |-> frame[i].season, week |-> NormalizeWeek(frame[i].week)] :
                       i \in {k \in Indices(frame) :
                                 /\ NormalizeWeek(frame[k].week) # NaN
                                 /\ frame[k].gameday <= as_of.at}}
    IN  IF working = {}
        THEN [error |-> "", target |-> WeekTarget(as_of.year, 1)]
        ELSE [error |-> "",
              target |-> LET latest == CHOOSE x \in working :
                                          \A y \in working : EarlierWeek(y, x)
                         IN  WeekTarget(latest.season, latest.week)]

\* resolve_target_week (lines 78-119): the schedule of the candidate
\* seasons, the games that kicked off by as_of, their last (season, week).
ResolveTargetWeek(sched, as_of) ==
    LET candidate_seasons == {as_of.year - 1, as_of.year}
        frame == Pick(sched, {i \in Indices(sched) :
                                 sched[i].season \in candidate_seasons})
        working == {[season |-> frame[i].season, week |-> NormalizeWeek(frame[i].week)] :
                       i \in {k \in Indices(frame) :
                                 /\ NormalizeWeek(frame[k].week) # NaN
                                 /\ frame[k].gameday <= as_of.at}}
    IN  IF frame = <<>> THEN [error |-> "RuntimeError", target |-> NoTarget]
        ELSE IF working = {} THEN [error |-> "RuntimeError", target |-> NoTarget]
        ELSE [error |-> "",
              target |-> LET latest == CHOOSE x \in working :
                                          \A y \in working : EarlierWeek(y, x)
                         IN  WeekTarget(latest.season, latest.week)]

-----------------------------------------------------------------------------
(* The pipelines: backfill (cli.py) and refresh_week (ops/weekly.py). *)

\* The three loads inside one transaction: a failure undoes them all.
RunPipelineAtomic(d, sched, frame, target_weeks, fault) ==
    LET s1 == LoadSeasonsAndWeeksTx(d, sched, SEASON, SEASON)
        s2 == LoadGamesTx(s1.db, sched, target_weeks)
        s3 == LoadWeeklyStatsRun(s2.db, sched, frame, target_weeks, fault)
    IN  IF s1.error # "" THEN [db |-> d, error |-> s1.error, weekly_df |-> NoFrame]
        ELSE IF s2.error # "" THEN [db |-> d, error |-> s2.error, weekly_df |-> NoFrame]
        ELSE IF s3.error # "" THEN [s3 EXCEPT !.db = d]
        ELSE s3

\* The three loads called one after the other; the exception of one ends
\* the pipeline and leaves the store as the calls made so far left it.
RunPipeline(d, sched, frame, target_weeks, fault) ==
    LET s1 == LoadSeasonsAndWeeksTx(d, sched, SEASON, SEASON)
        s2 == LoadGamesTx(s1.db, sched, target_weeks)
        s3 == LoadWeeklyStatsRun(s2.db, sched, frame, target_weeks, fault)
    IN  IF s1.error # "" THEN [db |-> s1.db, error |-> s1.error, weekly_df |-> NoFrame]
        ELSE IF s2.error # "" THEN [db |-> s2.db, error |-> s2.error, weekly_df |-> NoFrame]
        ELSE s3

-----------------------------------------------------------------------------
(* cli.py: update-week and update-current. *)

\* The first season backfill accepts (min=1999).
MinSeason == 1999

\* The weeks update-week accepts (min=1, max=22).
MinWeek == 1

MaxWeek == 22

\* datetime.fromisoformat on the strings a caller passes: an ISO timestamp
\* is a moment, anything else a ValueError.
IsoMoments == ("2023-09-13T00:00:00" :> Moment(SEASON, 13))

\* datetime.now() when --as-of is not given.
Now == Moment(SEASON, 13)

\* parse_as_of (ops/weekly.py lines 141-151).
ParseAsOf(value) ==
    IF value = NA \/ value = "" THEN [error |-> "", as_of |-> <<>>]
    ELSE IF value \in DOMAIN IsoMoments
         THEN [error |-> "", as_of |-> <<IsoMoments[value]>>]
         ELSE [error |-> "ValueError", as_of |-> <<>>]

\* The provider's rows of one season.
SeasonFrame(frame, season) ==
    [frame EXCEPT !.rows = Pick(frame.rows, {i \in Indices(frame.rows) :
                                               frame.rows[i].season = season})]

\* The three loaders over (season, season) with target_weeks=[week]: the
\* body of update_week (cli.py lines 62-65) and of refresh_week.
RefreshWeekOf(d, sched, frame, target, fault) ==
    LET mine == Pick(sched, {i \in Indices(sched) : sched[i].season = target.season})
        tw == TargetWeeks({target.week})
        s1 == LoadSeasonsAndWeeksTx(d, mine, target.season, target.season)
        s2 == LoadGamesTx(s1.db, mine, tw)
        s3 == LoadWeeklyStatsRun(s2.db, mine, SeasonFrame(frame, target.season), tw, fault)
    IN  IF s1.error # "" THEN [db |-> s1.db, error |-> s1.error, weekly_df |-> NoFrame]
        ELSE IF s2.error # "" THEN [db |-> s2.db, error |-> s2.error, weekly_df |-> NoFrame]
        ELSE s3

\* update_week (cli.py lines 56-66): typer checks --week against 1..22
\* before the body runs; --season is any integer.
UpdateWeek(d, df, sched, frame, season, week) ==
    IF week < MinWeek \/ week > MaxWeek
    THEN [outcome |-> "BadParameter", target |-> NoTarget, io |-> FALSE,
          db |-> d, weekly_df |-> df]
    ELSE LET r == RefreshWeekOf(d, sched, frame, [season |-> season, week |-> week], "none")
         IN  [outcome |-> r.error, target |-> WeekTarget(season, week), io |-> TRUE,
              db |-> r.db, weekly_df |-> r.weekly_df]

\* update_current (cli.py lines 69-114): --as-of is parsed first; both
\* overrides given make the target, otherwise the resolver does and the
\* override given replaces its season or week; NaN is an option not given.
UpdateCurrent(d, df, sched, frame, season, week, as_of, dry_run) ==
    LET parsed == ParseAsOf(as_of)
        moment == IF parsed.as_of = <<>> THEN Now ELSE parsed.as_of[1]
        both == season # NaN /\ week # NaN
        resolved == ResolveTargetWeek(sched, moment)
        target ==
            IF both THEN [season |-> season, week |-> week]
            ELSE [season |-> IF season # NaN THEN season ELSE resolved.target[1].season,
                  week |-> IF week # NaN THEN week ELSE resolved.target[1].week]
        r == RefreshWeekOf(d, sched, frame, target, "none")
    IN  IF parsed.error # ""
        THEN [outcome |-> "BadParameter", target |-> NoTarget, io |-> FALSE,
              db |-> d, weekly_df |-> df]
        ELSE IF ~both /\ resolved.error # ""
        THEN [outcome |-> resolved.error, target |-> NoTarget, io |-> TRUE,
              db |-> d, weekly_df |-> df]
        ELSE IF dry_run
        THEN [outcome |-> "", target |-> <<target>>, io |-> ~both,
              db |-> d, weekly_df |-> df]
        ELSE [outcome |-> r.error, target |-> <<target>>, io |-> TRUE,
              db |-> r.db, weekly_df |-> r.weekly_df]

-----------------------------------------------------------------------------
(* api/main.py: GET /players/{player_id}/timeline. *)

\* The timeline query before its ORDER BY (lines 493-531): the player's
\* statistics rows joined with weeks, seasons and teams, one row per
\* (year, week_number, team_code) group; season NaN is no season filter.
TimelineGroups(d, player_id, season) ==
    LET joined == {x \in d.player_game_stats \X d.weeks \X d.seasons \X d.teams :
                      /\ x[1].player_id = player_id
                      /\ x[1].week_id = x[2].week_id
                      /\ x[2].season_id = x[3].season_id
                      /\ x[1].team_id = x[4].team_id
                      /\ (season = NaN \/ x[3].year = season)}
        keyOf(x) == [season |-> x[3].year, week |-> x[2].week_number,
                     team_code |-> x[4].team_code]
    IN  {LET mine == {x \in joined : keyOf(x) = k}
         IN  [season |-> k.season, week |-> k.week, team_code |-> k.team_code,
              games_played |-> Cardinality({x[1].game_id : x \in mine}),
              pass_yds |-> SumOver([x \in mine |-> IF x[1].pass_yds = NaN THEN 0
                                                   ELSE x[1].pass_yds], mine)] :
            k \in {keyOf(x) : x \in joined}}

\* ORDER BY s.year ASC, w.week_number ASC: every order of the groups that
\* is ascending in (season, week); groups of one week come in any order.
TimelineOrders(groups) ==
    {tl \in [1..Cardinality(groups) -> groups] :
        /\ \A i, j \in DOMAIN tl : tl[i] = tl[j] => i = j
        /\ \A i, j \in DOMAIN tl : i < j => EarlierWeek(tl[i], tl[j])}

TeamEvent(entry) ==
    [team_code |-> entry.team_code,
     start_season |-> entry.season, start_week |-> entry.week,
     end_season |-> entry.season, end_week |-> entry.week]

\* One event per timeline entry.
RECURSIVE TeamEventsPerEntry(_)
TeamEventsPerEntry(timeline) ==
    IF timeline = <<>> THEN <<>>
    ELSE Append(TeamEventsPerEntry(SubSeq(timeline, 1, Len(timeline) - 1)),
                TeamEvent(timeline[Len(timeline)]))

\* lines 576-592: a new event when the team differs from the last event's,
\* otherwise the last event's end moves to the entry.
RECURSIVE TeamEvents(_)
TeamEvents(timeline) ==
    IF timeline = <<>> THEN <<>>
    ELSE LET entry == timeline[Len(timeline)]
             events == TeamEvents(SubSeq(timeline, 1, Len(timeline) - 1))
         IN  IF entry.team_code = NA THEN events
             ELSE IF events = <<>> \/ events[Len(events)].team_code # entry.team_code
             THEN Append(events, TeamEvent(entry))
             ELSE [events EXCEPT ![Len(events)].end_season = entry.season,
                                 ![Len(events)].end_week = entry.week]

\* get_player_timeline (lines 456-607): 404 for a player id without a
\* players row, otherwise the timeline and its team events.
GetPlayerTimeline(d, player_id, season) ==
    IF ~\E p \in d.players : p.player_id = player_id
    THEN {[status |-> 404, detail |-> "Player not found",
           timeline |-> <<>>, team_events |-> <<>>]}
    ELSE {[status |-> 200, detail |-> "",
           timeline |-> tl, team_events |-> TeamEvents(tl)] :
             tl \in TimelineOrders(TimelineGroups(d, player_id, season))}

-----------------------------------------------------------------------------
(* The inputs the model draws: schedule feeds and weekly frames. *)

GameKeys == <<"G1", "G2">>

\* One schedule row; the fixture's game is played on day 10.
GameRow(key, week, home, score) ==
    [game_id |-> key, season |-> SEASON, week |-> week, gameday |-> 10,
     home_team |-> home,
     away_team |-> CHOOSE t \in TeamCodes : t # home,
     home_score |-> score[1], away_score |-> score[2]]

\* Feeds with at most one row per game key, in key order.
RECURSIVE FeedsOver(_, _)
FeedsOver(keys, options) ==
    IF keys = <<>> THEN {<<>>}
    ELSE LET rest == FeedsOver(Tail(keys), options)
         IN  rest \cup {<<GameRow(Head(keys), o[1], o[2], o[3])>> \o r :
                            o \in options[Head(keys)], r \in rest}

Scores == {<<24, 17>>, <<31, 28>>}

\* Week 1 with G1 at Kansas City and the return game G2 at Detroit, each
\* listed or not, final score 24-17.
Schedules ==
    FeedsOver(GameKeys,
              ("G1" :> ({"1"} \X {"KAN"} \X {<<24, 17>>}))
                  @@ ("G2" :> ({"1"} \X {"DET"} \X {<<24, 17>>})))

PlayerName == ("P1" :> "Player One") @@ ("P2" :> "Player Two")
                 @@ ("" :> "Nobody") @@ (NA :> "Nobody")

\* One weekly row of the primary schema: a quarterback throws and is sacked,
\* a defender makes sacks; v scales the row's statistics.
Row(player, team, week, group, v) ==
    [BlankRow EXCEPT
        !.player_id = player, !.player_display_name = PlayerName[player],
        !.position = group, !.position_group = group,
        !.recent_team = team, !.week = week,
        !.attempts = IF group = "QB" THEN 10 * v ELSE 0,
        !.passing_yards = IF group = "QB" THEN 100 * v ELSE 0,
        !.rushing_yards = v,
        !.interceptions = IF group = "QB" THEN v ELSE 0,
        !.sacks = IF group = "QB" THEN 2 * v ELSE 2 * v + 1,
        !.rushing_fumbles_lost = 0, !.receiving_fumbles_lost = 0,
        !.sack_fumbles_lost = 0]

FramesOver(rows) ==
    {[columns |-> PrimaryColumns, rows |-> r] : r \in SeqsUpTo(rows, MaxRows)}

\* P1 is a quarterback and P2 a defensive lineman, each on either team.
WeeklyRows ==
    {Row("P1", t, 1, "QB", 1) : t \in TeamCodes}
        \cup {Row("P2", t, 1, "DL", 1) : t \in TeamCodes}

WeeklyFrames == FramesOver(WeeklyRows)

\* A quarterback whose team and statistics are revised between loads and a
\* lineman who stays as he is; a frame has one row per player and week.
ReloadRows ==
    {Row("P1", t, 1, "QB", v) : t \in TeamCodes, v \in {1, 2}}
        \cup {Row("P2", "KAN", 1, "DL", 1)}

ReloadFrames ==
    {f \in FramesOver(ReloadRows) :
        \A i, j \in Indices(f.rows) :
            f.rows[i].player_id = f.rows[j].player_id => i = j}

Fixture == <<GameRow("G1", "1", "KAN", <<24, 17>>)>>

\* Schedule revisions: G1 in either week, at either ground, with either
\* score; G2 in week 1 at either ground.
GameFeeds ==
    FeedsOver(GameKeys,
              ("G1" :> ({"1", "2"} \X TeamCodes \X Scores))
                  @@ ("G2" :> ({"1"} \X TeamCodes \X {<<24, 17>>})))

NoWeekly == [columns |-> PrimaryColumns, rows |-> <<>>]

\* Two weeks: G1 in week 1 at Kansas City, G2 in week 2 at Detroit.
TwoWeeks ==
    <<GameRow("G1", "1", "KAN", <<24, 17>>), GameRow("G2", "2", "DET", <<31, 28>>)>>

\* The quarterback's row of week 1, in two revisions, and his row of week 2;
\* a frame has one row per player and week.
WindowRows ==
    {Row("P1", "KAN", 1, "QB", v) : v \in {1, 2}} \cup {Row("P1", "KAN", 2, "QB", 1)}

WindowFrames ==
    {f \in FramesOver(WindowRows) :
        \A i, j \in Indices(f.rows) : f.rows[i].week = f.rows[j].week => i = j}

\* What two invocations may read: the quarterback on either team, in two
\* revisions of his statistics, alone or with the lineman.
ConcurrentFrames ==
    {[columns |-> PrimaryColumns, rows |-> <<Row("P1", t, 1, "QB", v)>> \o more] :
        t \in TeamCodes, v \in {1, 2}, more \in {<<>>, <<Row("P2", "KAN", 1, "DL", 1)>>}}

\* Feeds over two seasons: the fixture's game of SEASON and a game of the
\* season before, each listed or not.
SeasonFeeds ==
    {earlier \o now :
        earlier \in {<<>>, <<[GameRow("G2", "1", "DET", <<31, 28>>)
                                 EXCEPT !.season = SEASON - 1]>>},
        now \in {<<>>, Fixture}}

\* Feeds for the resolver: games of the season before (day 5), of the season
\* (days 10 and 12) and of its playoffs in the next calendar year (day 20),
\* with numbered weeks, playoff rounds and a label the resolver does not know.
ResolveRows ==
    {[GameRow("G1", w, "KAN", <<24, 17>>) EXCEPT !.season = SEASON - 1, !.gameday = 5] :
        w \in {"2", "Super Bowl"}}
    \cup {[GameRow("G1", w, "KAN", <<24, 17>>) EXCEPT !.gameday = day] :
        w \in {"1", "2"}, day \in {10, 12}}
    \cup {[GameRow("G1", w, "KAN", <<24, 17>>) EXCEPT !.gameday = 20] :
        w \in {"Wildcard", "Pro Bowl"}}

ResolveFeeds == SeqsUpTo(ResolveRows, MaxRows)

\* Moments of the season's year and one of the year after.
AsOfs ==
    {Moment(SEASON, at) : at \in {9, 11, 13}} \cup {Moment(SEASON + 1, 21)}

\* Feeds for the timeline: G1 in week 1 at Kansas City; G2 at Detroit in
\* week 1 or week 2, listed or not.
TimelineFeeds ==
    {<<GameRow("G1", "1", "KAN", <<24, 17>>)>> \o more :
        more \in {<<>>} \cup {<<GameRow("G2", w, "DET", <<31, 28>>)>> : w \in {"1", "2"}}}

\* The quarterback on either team in week 1 and at Kansas City in week 2.
TimelineFrames ==
    {[columns |-> PrimaryColumns,
      rows |-> <<Row("P1", t, 1, "QB", 1), Row("P1", "KAN", 2, "QB", 2)>>] :
        t \in TeamCodes}

\* Frames over two seasons and two weeks: a row of the season before and
\* the rows of week 1 and week 2 of the season, in this order; a frame may
\* list a row twice.
StageRows ==
    <<[Row("P1", "KAN", 1, "QB", 1) EXCEPT !.season = SEASON - 1],
      Row("P1", "KAN", 1, "QB", 2), Row("P1", "KAN", 2, "QB", 1)>>

StageFrames ==
    {[columns |-> PrimaryColumns, rows |-> [k \in Indices(ix) |-> StageRows[ix[k]]]] :
        ix \in {s \in SeqsUpTo(Indices(StageRows), MaxRows) :
                   \A i, j \in Indices(s) : i < j => s[i] <= s[j]}}

\* Feeds of one game that the provider lists or not and moves from week 1
\* to week 2.
PipelineFeeds ==
    FeedsOver(<<"G1">>, "G1" :> ({"1", "2"} \X {"KAN"} \X {<<24, 17>>}))

\* Feeds with a playoff round: G1 in week 1 or in the wild-card round "WC",
\* with or without a final score; G2, the return game, in the wild-card
\* round.
PlayoffFeeds ==
    FeedsOver(GameKeys,
              ("G1" :> ({"1", "WC"} \X {"KAN"} \X {<<24, 17>>, <<NaN, NaN>>}))
                  @@ ("G2" :> ({"WC"} \X {"DET"} \X {<<24, 17>>})))

\* Raw frames for the normalizer: valid rows of every position group, week
\* and sack value, and rows the filter must drop (blank or missing player id,
\* missing team, the multi-team marker TOT).
CleanRows ==
    {[Row("P1", "KAN", w, g, 1) EXCEPT !.sacks = s] :
        w \in {1, 2}, g \in {"QB", "DL", "WR"}, s \in {NaN, 2}}
    \cup {Row(id, "KAN", 1, g, 1) : id \in {"", NA}, g \in {"QB", "DL"}}
    \cup {Row("P2", t, 1, g, 1) : t \in {"TOT", NA}, g \in {"QB", "DL"}}

CleanFrames == FramesOver(CleanRows)

\* The weekly fixture of the tests (conftest write_weekly): QB1, WR1 and
\* EDGE1 of the home team, QB2 and DL1 of the away team, week 1.
FixtureRow(player, group, team, attempts, pass, rush, picks, halves) ==
    [BlankRow EXCEPT
        !.player_id = player, !.player_display_name = player,
        !.position = group, !.position_group = group,
        !.recent_team = team, !.week = 1,
        !.attempts = attempts, !.passing_yards = pass, !.rushing_yards = rush,
        !.interceptions = picks, !.sacks = halves,
        !.rushing_fumbles_lost = 0, !.receiving_fumbles_lost = 0,
        !.sack_fumbles_lost = 0]

FixtureRows ==
    <<FixtureRow("QB1", "QB", "KAN", 35, 280, 32, 1, 4),
      FixtureRow("WR1", "WR", "KAN", 0, 0, 8, 0, 0),
      FixtureRow("EDGE1", "DL", "KAN", 0, 0, 0, 0, 3),
      FixtureRow("QB2", "QB", "DET", 30, 245, 12, 0, 6),
      FixtureRow("DL1", "DL", "DET", 0, 0, 0, 0, 4)>>

\* The fixture and every frame made of some of its rows.
FixtureFrames ==
    {[columns |-> PrimaryColumns, rows |-> Pick(FixtureRows, idx)] :
        idx \in SUBSET Indices(FixtureRows)}

\* The fixture game played, and listed before it is played (no score yet).
FixtureSchedules ==
    {Fixture, <<GameRow("G1", "1", "KAN", <<NaN, NaN>>)>>}

\* A quarterback whose name and position are revised between loads (the
\* position blank in one revision), alone or with a player of week 2, a
\* week without game in the fixture schedule.
PlayerRevisions ==
    {[Row("P1", "KAN", 1, "QB", 1) EXCEPT
         !.player_display_name = n, !.position = p] :
        n \in {"Player One", "P. One"}, p \in {"QB", ""}}

PlayerFrames ==
    {[columns |-> PrimaryColumns, rows |-> r] :
        r \in {<<>>} \cup {<<p>> : p \in PlayerRevisions}
                \cup {<<p, Row("P2", "KAN", 2, "DL", 1)>> : p \in PlayerRevisions}}

\* One player of the fixture game whose provider values are present or
\* missing: attempts, passing yards, sacks, the fumbles lost.
SparseRows ==
    {[Row("P1", "KAN", 1, g, 1) EXCEPT
         !.attempts = a, !.passing_yards = a, !.sacks = h,
         !.rushing_fumbles_lost = f, !.receiving_fumbles_lost = f,
         !.sack_fumbles_lost = f] :
        g \in {"QB", "WR", "DL"}, a \in {NaN, 10}, h \in {NaN, 2}, f \in {NaN, 0}}

SparseFrames == {[columns |-> PrimaryColumns, rows |-> <<r>>] : r \in SparseRows}

\* Frames of every provider schema: the identity and yardage columns, one,
\* both or none of the team columns, and any of the optional columns.
OptionalColumns ==
    {"interceptions", "passing_interceptions", "sacks", "sacks_suffered",
     "def_sacks", "position_group", "rushing_fumbles_lost",
     "receiving_fumbles_lost", "sack_fumbles_lost"}

IdentityColumns ==
    {"player_id", "player_display_name", "position", "season", "week",
     "attempts", "passing_yards", "rushing_yards"}

SchemaColumns ==
    {IdentityColumns \cup t \cup o :
        t \in SUBSET {"recent_team", "team"}, o \in SUBSET OptionalColumns}

\* A row that carries a value in every column a schema may have; the two
\* interception columns differ so that the one read shows.
SchemaRow(player, group, picks, fumbles) ==
    [Row(player, "KAN", 1, group, 1) EXCEPT
        !.team = "KAN",
        !.interceptions = picks,
        !.passing_interceptions = IF picks = NaN THEN NaN ELSE picks + 1,
        !.sacks_suffered = IF group = "QB" THEN 2 ELSE 0,
        !.def_sacks = IF group = "QB" THEN 0 ELSE 3,
        !.rushing_fumbles_lost = fumbles[1],
        !.receiving_fumbles_lost = fumbles[2],
        !.sack_fumbles_lost = fumbles[3]]

\* A quarterback with one interception and a receiver with one interception
\* and one fumble lost (test_load_weekly_stats_transforms); then the same
\* with values missing.
SchemaRowSets ==
    {<<SchemaRow("P1", "QB", 1, <<0, 0, 0>>),
       SchemaRow("P2", "WR", 1, <<1, 0, 0>>)>>,
     <<SchemaRow("P1", "QB", NaN, <<NaN, 1, 1>>),
       SchemaRow("P2", "DL", 1, <<NaN, NaN, 1>>)>>}

SchemaFrames ==
    {[columns |-> c, rows |-> r] : c \in SchemaColumns, r \in SchemaRowSets}

-----------------------------------------------------------------------------
(* The weekly provider chain and its cache: _load_weekly_df. *)

\* lines 139-147: the adapters in the order they are tried.
Providers == <<"nflreadpy", "nfl_data_py", "release">>

Seasons == {SEASON - 1, SEASON}

\* cache_path("weekly", season_start, season_end): one file per range.
CacheKeys == {k \in Seasons \X Seasons : k[1] <= k[2]}

\* A file that may not exist, a frame a call may not return: <<>> or <<f>>.
NoFile == <<>>

NoCache == [k \in CacheKeys |-> NoFile]

\* What adapter p returns for a season when it succeeds: the season's rows,
\* told apart by the adapter that delivered them.
ProviderFrame(p, season) ==
    [columns |-> PrimaryColumns,
     rows |-> <<[Row("P1", "KAN", 1, "QB", p) EXCEPT !.season = season]>>]

\* The seasons of a range (line 133).
SeasonsOf(key) == {season \in Seasons : key[1] <= season /\ season <= key[2]}

\* Which adapter calls succeed during one fetch of a range.
Outcomes(key) == [SeasonsOf(key) \X Indices(Providers) -> BOOLEAN]

\* The outcomes over both seasons in which, season by season, every adapter
\* behind the first one that works also works.
Outages ==
    {ok \in Outcomes(<<SEASON - 1, SEASON>>) :
        \A season \in Seasons, p, q \in Indices(Providers) :
            (ok[<<season, p>>] /\ p < q) => ok[<<season, q>>]}

\* One adapter call as it happened: did it return a frame.
Call(season, p, returned) ==
    [season |-> season, provider |-> Providers[p], returned |-> returned]

\* The failure reason an adapter returns, recorded in errors.
Reason(season, p) == <<season, Providers[p]>>

\* An adapter chain that goes on to the next adapter after a success.
RECURSIVE TryProvidersKeepGoing(_, _, _)
TryProvidersKeepGoing(season, p, ok) ==
    IF p > Len(Providers)
    THEN [calls |-> <<>>, errors |-> <<>>, found |-> FALSE, frame |-> NoFile]
    ELSE LET rest == TryProvidersKeepGoing(season, p + 1, ok)
         IN  IF ok[<<season, p>>]
             THEN [calls |-> <<Call(season, p, TRUE)>> \o rest.calls,
                   errors |-> rest.errors, found |-> TRUE,
                   frame |-> <<ProviderFrame(p, season)>>]
             ELSE [rest EXCEPT
                     !.calls = <<Call(season, p, FALSE)>> \o @,
                     !.errors = <<Reason(season, p)>> \o @]

\* lines 136-150 for one season, from adapter p on: the calls made, the
\* failure reasons recorded and the frame of the first adapter that succeeds.
RECURSIVE TryProviders(_, _, _)
TryProviders(season, p, ok) ==
    IF p > Len(Providers)
    THEN [calls |-> <<>>, errors |-> <<>>, found |-> FALSE, frame |-> NoFile]
    ELSE IF ok[<<season, p>>]
    THEN [calls |-> <<Call(season, p, TRUE)>>, errors |-> <<>>,
          found |-> TRUE, frame |-> <<ProviderFrame(p, season)>>]
    ELSE LET rest == TryProviders(season, p + 1, ok)
         IN  [rest EXCEPT
                 !.calls = <<Call(season, p, FALSE)>> \o @,
                 !.errors = <<Reason(season, p)>> \o @]

\* A chain that passes over a season no adapter delivers.
RECURSIVE FetchSeasonsLenient(_, _, _)
FetchSeasonsLenient(season, season_end, ok) ==
    IF season > season_end
    THEN [calls |-> <<>>, errors |-> <<>>, raised |-> FALSE, rows |-> <<>>]
    ELSE LET one == TryProviders(season, 1, ok)
             rest == FetchSeasonsLenient(season + 1, season_end, ok)
         IN  [calls |-> one.calls \o rest.calls,
              errors |-> one.errors \o rest.errors,
              raised |-> FALSE,
              rows |-> (IF one.found THEN one.frame[1].rows ELSE <<>>) \o rest.rows]

\* lines 133-154: the seasons of the range in order; the first season for
\* which no adapter succeeds ends the fetch with the RuntimeError.
RECURSIVE FetchSeasons(_, _, _)
FetchSeasons(season, season_end, ok) ==
    IF season > season_end
    THEN [calls |-> <<>>, errors |-> <<>>, raised |-> FALSE, rows |-> <<>>]
    ELSE LET one == TryProviders(season, 1, ok)
         IN  IF ~one.found
             THEN [calls |-> one.calls, errors |-> one.errors,
                   raised |-> TRUE, rows |-> <<>>]
             ELSE LET rest == FetchSeasons(season + 1, season_end, ok)
                  IN  [calls |-> one.calls \o rest.calls,
                       errors |-> one.errors \o rest.errors,
                       raised |-> rest.raised,
                       rows |-> IF rest.raised THEN <<>>
                                ELSE one.frame[1].rows \o rest.rows]

\* A fetch that serves the cache file even when a refresh is forced.
LoadWeeklyDfIgnoringForce(c, season_start, season_end, force_refresh, ok) ==
    LET key == <<season_start, season_end>>
    IN  IF c[key] # NoFile
        THEN [cache |-> c, calls |-> <<>>, errors |-> <<>>, raised |-> FALSE,
              frame |-> c[key]]
        ELSE LET r == FetchSeasons(season_start, season_end, ok)
                 combined == [columns |-> PrimaryColumns, rows |-> r.rows]
             IN  IF r.raised
                 THEN [cache |-> c, calls |-> r.calls, errors |-> r.errors,
                       raised |-> TRUE, frame |-> NoFile]
                 ELSE [cache |-> [c EXCEPT ![key] = <<combined>>], calls |-> r.calls,
                       errors |-> r.errors, raised |-> FALSE, frame |-> <<combined>>]

\* _load_weekly_df: a cache hit returns the file; otherwise the chain runs
\* and, when every season succeeded, the combined frame is written to the
\* cache file of the range (lines 156-158).
LoadWeeklyDf(c, season_start, season_end, force_refresh, ok) ==
    LET key == <<season_start, season_end>>
    IN  IF c[key] # NoFile /\ ~force_refresh
        THEN [cache |-> c, calls |-> <<>>, errors |-> <<>>, raised |-> FALSE,
              frame |-> c[key]]
        ELSE LET r == FetchSeasons(season_start, season_end, ok)
                 combined == [columns |-> PrimaryColumns, rows |-> r.rows]
             IN  IF r.raised
                 THEN [cache |-> c, calls |-> r.calls, errors |-> r.errors,
                       raised |-> TRUE, frame |-> NoFile]
                 ELSE [cache |-> [c EXCEPT ![key] = <<combined>>], calls |-> r.calls,
                       errors |-> r.errors, raised |-> FALSE, frame |-> <<combined>>]

NotFetched ==
    [op |-> "", key |-> <<SEASON, SEASON>>, force_refresh |-> FALSE,
     raised |-> FALSE, errors |-> <<>>, frame |-> NoFile, hit |-> FALSE]

\* The outcome of a fetch as the caller sees it, with the arguments of the
\* call and whether the range had a cache file when the call began.
Fetched(op, c, key, force_refresh, r) ==
    [op |-> op, key |-> key, force_refresh |-> force_refresh,
     raised |-> r.raised, errors |-> r.errors, frame |-> r.frame,
     hit |-> c[key] # NoFile]

-----------------------------------------------------------------------------
(* Actions. *)

\* The Game row g stores the feed row: same natural id, week and teams.
StoredGame(d, g, row) ==
    /\ IsDigitWeek(row.week)
    /\ g.nflfast_game_id = row.game_id
    /\ \E w \in d.weeks, s \in d.seasons :
          /\ w.week_id = g.week_id /\ w.week_number = WeekNumberOf[row.week]
          /\ s.season_id = w.season_id /\ s.year = row.season
    /\ g.home_team_id = TeamIdOf(d, row.home_team)
    /\ g.away_team_id = TeamIdOf(d, row.away_team)

InWindow(target_weeks, row) ==
    target_weeks.given => WeekNumberOf[row.week] \in target_weeks.weeks

\* A call rewrote a stored row: a row that was there before the call is
\* still there under its surrogate key, with other values.
Changed(old, new, key) == \E a \in old, b \in new : a[key] = b[key] /\ a # b

Rewrote(d, e) ==
    \/ Changed(d.games, e.games, "game_id")
    \/ Changed(d.players, e.players, "player_id")
    \/ Changed(d.team_game_stats, e.team_game_stats, "team_game_stats_id")
    \/ Changed(d.player_game_stats, e.player_game_stats, "player_game_stats_id")

\* What the last call was and how it ended; repeat says that it repeated the
\* call before it (same operation, same arguments, both without error) with
\* the feeds unchanged in between, rewrote that it changed a stored row,
\* reingest that it was a load_games call over a feed whose rows in the
\* window were all stored games already.
Done(op, error, target_weeks, e) ==
    [op |-> op, error |-> error, target_weeks |-> target_weeks,
     repeat |-> /\ last.op = op /\ last.error = "" /\ error = ""
                /\ last.target_weeks = target_weeks,
     rewrote |-> Rewrote(db, e),
     reingest |-> /\ op = "load_games"
                  /\ \A i \in Indices(schedule) :
                        InWindow(target_weeks, schedule[i])
                            => \E g \in db.games : StoredGame(db, g, schedule[i])]

NotRun == [op |-> "", error |-> "", target_weeks |-> NoTargetWeeks,
           repeat |-> FALSE, rewrote |-> FALSE, reingest |-> FALSE]

\* The provider publishes a revised schedule (tests: write_schedule).
PublishSchedule(feeds) ==
    /\ \E s \in feeds \ {schedule} : schedule' = s
    /\ last' = Done("publish_schedule", "", NoTargetWeeks, db)
    /\ UNCHANGED <<weekly, db, weekly_df, revisions>>
    /\ UNCHANGED <<fetchVars, running, toolVars>>

\* The provider publishes revised weekly statistics (tests: write_weekly).
PublishWeekly(frames) ==
    /\ revisions < MaxRevisions
    /\ \E f \in frames \ {weekly} : weekly' = f
    /\ revisions' = revisions + 1
    /\ last' = Done("publish_weekly", "", NoTargetWeeks, db)
    /\ UNCHANGED <<schedule, db, weekly_df>>
    /\ UNCHANGED <<fetchVars, running, toolVars>>

LoadSeasonsAndWeeks ==
    /\ \E r \in {LoadSeasonsAndWeeksTx(db, schedule, SEASON, SEASON)} :
           /\ db' = r.db
           /\ last' = Done("load_seasons_and_weeks", r.error, NoTargetWeeks, r.db)
    /\ UNCHANGED <<schedule, weekly, weekly_df, revisions>>
    /\ UNCHANGED <<fetchVars, running, toolVars>>

LoadGames(weekOptions) ==
    /\ \E tw \in weekOptions :
          \E r \in {LoadGamesTx(db, schedule, tw)} :
              /\ db' = r.db
              /\ last' = Done("load_games", r.error, tw, r.db)
    /\ UNCHANGED <<schedule, weekly, weekly_df, revisions>>
    /\ UNCHANGED <<fetchVars, running, toolVars>>

LoadWeeklyStats(weekOptions) ==
    /\ \E tw \in weekOptions, fault \in Faults :
          \E r \in {LoadWeeklyStatsRun(db, schedule, weekly, tw, fault)} :
              /\ db' = r.db
              /\ weekly_df' = r.weekly_df
              /\ last' = Done("load_weekly_stats", r.error, tw, r.db)
    /\ UNCHANGED <<schedule, weekly, revisions>>
    /\ UNCHANGED <<fetchVars, running, toolVars>>

\* cli.py backfill: the whole season, with stage_raw=True; the normalized
\* frame of a run that reached load_weekly_stats is staged before the
\* upserts.
Backfill ==
    /\ \E fault \in Faults :
          \E r \in {RunPipeline(db, schedule, weekly, NoTargetWeeks, fault)} :
              /\ db' = r.db
              /\ weekly_df' = r.weekly_df
              /\ staging' = StageWeeklyStats(staging, r.weekly_df.rows,
                                             NoTargetWeeks, fault).staging
              /\ last' = Done("backfill", r.error, NoTargetWeeks, r.db)
    /\ UNCHANGED <<schedule, weekly, revisions, cli>>
    /\ UNCHANGED <<fetchVars, running>>

\* load_weekly_stats(season, season, target_weeks, stage_raw=True).
LoadWeeklyStatsStaged(weekOptions) ==
    /\ \E tw \in weekOptions, fault \in Faults \cup {"staging"} :
          \E r \in {LoadWeeklyStatsStagedRun(db, staging, schedule, weekly, tw, fault)} :
              /\ db' = r.db
              /\ weekly_df' = r.weekly_df
              /\ staging' = r.staging
              /\ last' = Done("load_weekly_stats_staged", r.error, tw, r.db)
    /\ UNCHANGED <<schedule, weekly, revisions, cli>>
    /\ UNCHANGED <<fetchVars, running>>

\* ops/weekly.py refresh_week: one target week.
RefreshWeek(weekNumbers) ==
    /\ \E week \in weekNumbers, fault \in Faults :
          \E r \in {RunPipeline(db, schedule, weekly, TargetWeeks({week}), fault)} :
              /\ db' = r.db
              /\ weekly_df' = r.weekly_df
              /\ last' = Done("refresh_week", r.error, TargetWeeks({week}), r.db)
    /\ UNCHANGED <<schedule, weekly, revisions>>
    /\ UNCHANGED <<fetchVars, running, toolVars>>

\* nfl.import_schedules(seasons): the feed's rows of the requested seasons.
ScheduleOf(sched, key) ==
    Pick(sched, {i \in Indices(sched) : sched[i].season \in SeasonsOf(key)})

\* load_seasons_and_weeks over a season range; fetched keeps the range of
\* its schedule fetch.
LoadSeasonsAndWeeksOver(keys) ==
    /\ \E key \in keys :
          \E r \in {LoadSeasonsAndWeeksTx(db, ScheduleOf(schedule, key), key[1], key[2])} :
              /\ db' = r.db
              /\ fetched' = [NotFetched EXCEPT !.op = "load_seasons_and_weeks",
                                               !.key = key]
              /\ last' = Done("load_seasons_and_weeks", r.error, NoTargetWeeks, r.db)
    /\ UNCHANGED <<schedule, weekly, weekly_df, revisions, cache, calls, running, toolVars>>

\* What a command, ops call or API request was given and how it ended; io
\* says that it fetched a schedule, opened a cache file or wrote to the
\* store, body is the response of a request.
NoCommand ==
    [command |-> "", season |-> NaN, week |-> NaN, as_of |-> NA,
     outcome |-> "", target |-> NoTarget, io |-> FALSE,
     player_id |-> NaN, body |-> <<>>]

\* resolve_target_week called on its own.
ResolveTargetWeekCall(moments) ==
    /\ \E as_of \in moments :
          LET r == ResolveTargetWeek(schedule, as_of)
          IN  cli' = [NoCommand EXCEPT !.command = "resolve_target_week",
                                       !.as_of = as_of, !.outcome = r.error,
                                       !.target = r.target, !.io = TRUE]
    /\ last' = Done("resolve_target_week", "", NoTargetWeeks, db)
    /\ UNCHANGED <<schedule, weekly, db, weekly_df, revisions, running, staging>>
    /\ UNCHANGED fetchVars

\* nfldb update-week --season S --week W.
UpdateWeekCmd(seasons, weeks) ==
    /\ \E season \in seasons, week \in weeks :
          \E r \in {UpdateWeek(db, weekly_df, schedule, weekly, season, week)} :
              /\ db' = r.db
              /\ weekly_df' = r.weekly_df
              /\ cli' = [NoCommand EXCEPT !.command = "update-week",
                                           !.season = season, !.week = week,
                                           !.outcome = r.outcome,
                                           !.target = r.target, !.io = r.io]
              /\ last' = Done("update-week", r.outcome, NoTargetWeeks, db')
    /\ UNCHANGED <<schedule, weekly, revisions, running, staging>>
    /\ UNCHANGED fetchVars

\* nfldb update-current [--season S] [--week W] [--as-of T] [--dry-run].
UpdateCurrentCmd(seasons, weeks, stamps) ==
    /\ \E season \in seasons \cup {NaN}, week \in weeks \cup {NaN},
           as_of \in stamps \cup {NA}, dry_run \in BOOLEAN :
          \E r \in {UpdateCurrent(db, weekly_df, schedule, weekly,
                                   season, week, as_of, dry_run)} :
              /\ db' = r.db
              /\ weekly_df' = r.weekly_df
              /\ cli' = [NoCommand EXCEPT !.command = "update-current",
                                           !.season = season, !.week = week,
                                           !.as_of = as_of,
                                           !.outcome = r.outcome,
                                           !.target = r.target, !.io = r.io]
              /\ last' = Done("update-current", r.outcome, NoTargetWeeks, db')
    /\ UNCHANGED <<schedule, weekly, revisions, running, staging>>
    /\ UNCHANGED fetchVars

\* GET /api/v1/players/{player_id}/timeline?season=.
GetPlayerTimelineCall(ids, seasons) ==
    /\ \E player_id \in ids, season \in seasons \cup {NaN} :
          \E response \in GetPlayerTimeline(db, player_id, season) :
              cli' = [NoCommand EXCEPT !.command = "get_player_timeline",
                                       !.player_id = player_id, !.season = season,
                                       !.outcome = response.detail,
                                       !.body = <<response>>]
    /\ last' = Done("get_player_timeline", "", NoTargetWeeks, db)
    /\ UNCHANGED <<schedule, weekly, db, weekly_df, revisions, running, staging>>
    /\ UNCHANGED fetchVars

\* The normalizer on its own.
CleanWeeklyFrameCall(weekOptions) ==
    /\ \E tw \in weekOptions :
          LET r == CleanWeeklyFrame(weekly, tw)
          IN  /\ weekly_df' = r
              /\ last' = Done("_clean_weekly_frame", r.error, tw, db)
    /\ UNCHANGED <<schedule, weekly, db, revisions>>
    /\ UNCHANGED <<fetchVars, running, toolVars>>

\* _load_weekly_df called on its own (scripts, cache warm-up).
LoadWeeklyDfCall ==
    /\ \E key \in CacheKeys, force_refresh \in BOOLEAN :
       \E ok \in Outcomes(key) :
          LET r == LoadWeeklyDf(cache, key[1], key[2], force_refresh, ok)
          IN  /\ cache' = r.cache
              /\ calls' = r.calls
              /\ fetched' = Fetched("_load_weekly_df", cache, key, force_refresh, r)
    /\ last' = Done("_load_weekly_df", "", NoTargetWeeks, db)
    /\ UNCHANGED <<schedule, weekly, db, weekly_df, revisions, running, toolVars>>

\* load_weekly_stats with the weekly frame fetched through the chain
\* (lines 596-609): a fetch that raises ends the call before any write.
LoadWeeklyStatsFetching(keys, outcomes) ==
    /\ \E key \in keys, force_refresh \in BOOLEAN, ok \in outcomes :
          LET f == LoadWeeklyDf(cache, key[1], key[2], force_refresh, ok)
              r == IF f.raised
                   THEN [db |-> db, error |-> "RuntimeError", weekly_df |-> NoFrame]
                   ELSE LoadWeeklyStatsRun(db, schedule, f.frame[1],
                                           NoTargetWeeks, "none")
          IN  /\ cache' = f.cache
              /\ calls' = f.calls
              /\ fetched' = Fetched("load_weekly_stats", cache, key, force_refresh, f)
              /\ db' = r.db
              /\ weekly_df' = r.weekly_df
              /\ last' = Done("load_weekly_stats", r.error, NoTargetWeeks, r.db)
    /\ UNCHANGED <<schedule, weekly, revisions, running, toolVars>>

\* Two load_weekly_stats invocations side by side: each reads its inputs,
\* then commits its three transactions one after the other (lines 596-609).
Invocations == {1, 2}

Idle == [i \in Invocations |-> [pc |-> "idle", frame |-> NoWeekly]]

CleanedOf(i) == CleanWeeklyFrame(running[i].frame, NoTargetWeeks).rows

\* lines 596-599: the schedule, the lookup, the weekly frame, the normalizer.
BeginLoad(i, frames) ==
    /\ running[i].pc = "idle"
    /\ \E f \in frames :
          LET cleaned == CleanWeeklyFrame(f, NoTargetWeeks)
          IN  running' = [running EXCEPT
                  ![i] = [pc |-> IF cleaned.error # "" THEN "failed" ELSE "players",
                          frame |-> f]]
    /\ last' = Done("load_weekly_stats: read", "", NoTargetWeeks, db)
    /\ UNCHANGED <<schedule, weekly, db, weekly_df, revisions>>
    /\ UNCHANGED <<fetchVars, toolVars>>

\* line 604: the transaction of _upsert_players.
PlayersStep(i) ==
    /\ running[i].pc = "players"
    /\ LET r == UpsertPlayers(db, CleanedOf(i), "none")
       IN  /\ db' = r.db
           /\ last' = Done("load_weekly_stats: players", r.error, NoTargetWeeks, r.db)
    /\ running' = [running EXCEPT ![i].pc = "team_stats"]
    /\ UNCHANGED <<schedule, weekly, weekly_df, revisions>>
    /\ UNCHANGED <<fetchVars, toolVars>>

\* lines 605-606: the transaction of _upsert_team_stats.
TeamStatsStep(i) ==
    /\ running[i].pc = "team_stats"
    /\ LET r == UpsertTeamStats(db, AggregateTeamStats(CleanedOf(i)),
                                PrepareScheduleLookup(schedule), "none")
       IN  /\ db' = r.db
           /\ last' = Done("load_weekly_stats: team_stats", r.error, NoTargetWeeks, r.db)
           /\ running' = [running EXCEPT
                   ![i].pc = IF r.error # "" THEN "failed" ELSE "player_stats"]
    /\ UNCHANGED <<schedule, weekly, weekly_df, revisions>>
    /\ UNCHANGED <<fetchVars, toolVars>>

\* lines 608-609: the transaction of _upsert_player_stats.
PlayerStatsStep(i) ==
    /\ running[i].pc = "player_stats"
    /\ LET r == UpsertPlayerStats(db,
                    PreparePlayerPayload(CleanedOf(i), PrepareScheduleLookup(schedule)),
                    "none")
       IN  /\ db' = r.db
           /\ last' = Done("load_weekly_stats: player_stats", r.error, NoTargetWeeks, r.db)
    /\ running' = [running EXCEPT ![i].pc = "done"]
    /\ UNCHANGED <<schedule, weekly, weekly_df, revisions>>
    /\ UNCHANGED <<fetchVars, toolVars>>

Start(feeds, frames) ==
    /\ schedule \in feeds
    /\ weekly \in frames
    /\ db = EmptyDb
    /\ weekly_df = NoFrame
    /\ last = NotRun
    /\ revisions = 0
    /\ cache = NoCache
    /\ calls = <<>>
    /\ fetched = NotFetched
    /\ running = Idle
    /\ cli = NoCommand
    /\ staging = <<>>

\* The three loads, in any order and any number of times, over fixed feeds.
Init == Start(Schedules, WeeklyFrames)

Next ==
    \/ LoadSeasonsAndWeeks
    \/ LoadGames({NoTargetWeeks})
    \/ LoadWeeklyStats({NoTargetWeeks})

Spec == Init /\ [][Next]_vars

\* The loads with the weekly statistics revised between them.
InitReload == Start({Fixture}, ReloadFrames)

NextReload ==
    \/ PublishWeekly(ReloadFrames)
    \/ LoadSeasonsAndWeeks
    \/ LoadGames({NoTargetWeeks})
    \/ LoadWeeklyStats({NoTargetWeeks})

SpecReload == InitReload /\ [][NextReload]_vars

\* The schedule loaders with the schedule revised between them.
InitGames == Start(GameFeeds, {NoWeekly})

NextGames ==
    \/ PublishSchedule(GameFeeds)
    \/ LoadSeasonsAndWeeks
    \/ LoadGames({NoTargetWeeks, TargetWeeks({1})})

SpecGames == InitGames /\ [][NextGames]_vars

\* The normalizer applied to every raw frame.
InitClean == Start({<<>>}, CleanFrames)

NextClean == CleanWeeklyFrameCall({NoTargetWeeks, TargetWeeks({1})})

SpecClean == InitClean /\ [][NextClean]_vars

\* The three loads on the test fixture.
InitFixture == Start(FixtureSchedules, FixtureFrames)

NextFixture ==
    \/ LoadSeasonsAndWeeks
    \/ LoadGames({NoTargetWeeks})
    \/ LoadWeeklyStats({NoTargetWeeks})

SpecFixture == InitFixture /\ [][NextFixture]_vars

\* The loads with the players' names and positions revised between them.
InitPlayers == Start({Fixture}, PlayerFrames)

NextPlayers ==
    \/ PublishWeekly(PlayerFrames)
    \/ LoadSeasonsAndWeeks
    \/ LoadGames({NoTargetWeeks})
    \/ LoadWeeklyStats({NoTargetWeeks})

SpecPlayers == InitPlayers /\ [][NextPlayers]_vars

\* The three loads on frames with missing provider values.
InitSparse == Start({Fixture}, SparseFrames)

NextSparse ==
    \/ LoadSeasonsAndWeeks
    \/ LoadGames({NoTargetWeeks})
    \/ LoadWeeklyStats({NoTargetWeeks})

SpecSparse == InitSparse /\ [][NextSparse]_vars

\* Loads of one week or the other, the weekly statistics revised between
\* them.
InitWindow == Start({TwoWeeks}, WindowFrames)

NextWindow ==
    \/ PublishWeekly(WindowFrames)
    \/ LoadSeasonsAndWeeks
    \/ LoadGames({NoTargetWeeks})
    \/ LoadWeeklyStats({TargetWeeks({1}), TargetWeeks({2})})

SpecWindow == InitWindow /\ [][NextWindow]_vars

\* Two load_weekly_stats invocations interleaved after the schedule loads.
InitConcurrent == Start({Fixture}, {NoWeekly})

NextConcurrent ==
    \/ LoadSeasonsAndWeeks
    \/ LoadGames({NoTargetWeeks})
    \/ \E i \in Invocations :
          \/ BeginLoad(i, ConcurrentFrames)
          \/ PlayersStep(i)
          \/ TeamStatsStep(i)
          \/ PlayerStatsStep(i)

SpecConcurrent == InitConcurrent /\ [][NextConcurrent]_vars

\* load_seasons_and_weeks over one or two seasons, the schedule revised
\* between the calls.
InitSeasons == Start(SeasonFeeds, {NoWeekly})

NextSeasons ==
    \/ PublishSchedule(SeasonFeeds)
    \/ LoadSeasonsAndWeeksOver(CacheKeys)

SpecSeasons == InitSeasons /\ [][NextSeasons]_vars

\* resolve_target_week on every feed and moment.
InitResolve == Start(ResolveFeeds, {NoWeekly})

NextResolve == ResolveTargetWeekCall(AsOfs)

SpecResolve == InitResolve /\ [][NextResolve]_vars

\* The two commands with seasons and weeks inside and outside the accepted
\* ranges and a timestamp that is none.
InitCli == Start({<<>>, Fixture}, {[NoWeekly EXCEPT !.rows = <<Row("P1", "KAN", 1, "QB", 1)>>]})

NextCli ==
    \/ UpdateWeekCmd({MinSeason - 1, SEASON}, {MinWeek - 1, 1, MaxWeek + 1})
    \/ UpdateCurrentCmd({MinSeason - 1, SEASON}, {1, MaxWeek + 1},
                        {"yesterday", "2023-09-13T00:00:00"})

SpecCli == InitCli /\ [][NextCli]_vars

\* The timeline of a player whose team changes between weeks and loads.
InitTimeline == Start(TimelineFeeds, TimelineFrames)

NextTimeline ==
    \/ PublishSchedule(TimelineFeeds)
    \/ PublishWeekly(TimelineFrames)
    \/ Backfill
    \/ GetPlayerTimelineCall({1, 2}, {})

SpecTimeline == InitTimeline /\ [][NextTimeline]_vars

\* Backfill and staged loads of a week with the frame revised in between.
InitStage == Start({Fixture}, StageFrames)

NextStage ==
    \/ PublishWeekly(StageFrames)
    \/ Backfill
    \/ LoadWeeklyStatsStaged({NoTargetWeeks, TargetWeeks({1})})

SpecStage == InitStage /\ [][NextStage]_vars

\* The pipelines with the schedule revised between them.
InitPipeline == Start(PipelineFeeds, WeeklyFrames)

NextPipeline ==
    \/ PublishSchedule(PipelineFeeds)
    \/ Backfill
    \/ RefreshWeek({1, 2})

SpecPipeline == InitPipeline /\ [][NextPipeline]_vars

\* The three loads on feeds with playoff rounds.
InitPlayoff == Start(PlayoffFeeds, WeeklyFrames)

NextPlayoff ==
    \/ LoadSeasonsAndWeeks
    \/ LoadGames({NoTargetWeeks})
    \/ LoadWeeklyStats({NoTargetWeeks})

SpecPlayoff == InitPlayoff /\ [][NextPlayoff]_vars

\* Fetches through the provider chain and its cache.
InitFetch == Start({Fixture}, {NoWeekly})

NextFetch == LoadWeeklyDfCall

SpecFetch == InitFetch /\ [][NextFetch]_vars

\* The three loads, the weekly frame of two seasons fetched through the
\* chain.
InitFetchLoad == Start({Fixture}, {NoWeekly})

NextFetchLoad ==
    \/ LoadSeasonsAndWeeks
    \/ LoadGames({NoTargetWeeks})
    \/ LoadWeeklyStatsFetching({<<SEASON - 1, SEASON>>}, Outages)

SpecFetchLoad == InitFetchLoad /\ [][NextFetchLoad]_vars

\* The normalizer applied to frames of every schema.
InitSchema == Start({<<>>}, SchemaFrames)

NextSchema == CleanWeeklyFrameCall({NoTargetWeeks})

SpecSchema == InitSchema /\ [][NextSchema]_vars

-----------------------------------------------------------------------------
(* Views of the store used by the properties. *)

TeamCodeOf(d, team_id) == (CHOOSE t \in d.teams : t.team_id = team_id).team_code

NaturalIdOf(d, game_id) ==
    (CHOOSE g \in d.games : g.game_id = game_id).nflfast_game_id

\* The lookup rows of a (season, week, team) triple name exactly one game.
ResolvesToOneGame(lookup, season, week, team) ==
    Cardinality({m.game_id : m \in
        {lookup[i] : i \in {k \in Indices(lookup) :
            /\ lookup[k].season = season
            /\ lookup[k].week = week
            /\ lookup[k].team_code = team}}}) = 1

\* The triples under which the lookup lists a game for a team.
TriplesOf(lookup, natural_id, team) ==
    {<<lookup[i].season, lookup[i].week>> : i \in
        {k \in Indices(lookup) :
            lookup[k].game_id = natural_id /\ lookup[k].team_code = team}}

\* The player records of the last load_weekly_stats call.
LastPlayerRecords ==
    LET payload == PreparePlayerPayload(weekly_df.rows, PrepareScheduleLookup(schedule))
    IN  {PlayerStatRecord(payload[i]) : i \in Indices(payload)}

LastTeamRecords ==
    LET recs == TeamStatRecords(AggregateTeamStats(weekly_df.rows),
                                PrepareScheduleLookup(schedule))
    IN  {recs[i] : i \in Indices(recs)}

\* A cleaned row without the position it had in the raw frame.
Content(r) == [f \in DOMAIN r \ {"source_row"} |-> r[f]]

Contents(rows) == [i \in Indices(rows) |-> Content(rows[i])]

\* The raw frame without the rows the filter must drop for their identity.
ValidIdentity(cols, r) == KeepRow(cols, r, NoTargetWeeks)

WithoutInvalid(frame) ==
    [columns |-> frame.columns,
     rows |-> Pick(frame.rows, {i \in Indices(frame.rows) :
                                   ValidIdentity(frame.columns, frame.rows[i])})]

\* The week number of a stored game.
WeekOfGame(d, game_id) ==
    LET g == CHOOSE x \in d.games : x.game_id = game_id
    IN  (CHOOSE w \in d.weeks : w.week_id = g.week_id).week_number

\* The statistics rows of the games outside a set of weeks.
OutsideWeeks(d, tbl, weekNumbers) ==
    {t \in tbl : WeekOfGame(d, t.game_id) \notin weekNumbers}

-----------------------------------------------------------------------------
(* Properties. *)

\* C1: a load_weekly_stats call that repeats the call before it on identical
\* schedule and weekly input leaves team_game_stats and player_game_stats
\* exactly as the first run left them: no row added, no value changed.
C1_Idempotent ==
    [][(last'.op = "load_weekly_stats" /\ last'.repeat)
        => /\ db'.team_game_stats = db.team_game_stats
           /\ db'.player_game_stats = db.player_game_stats]_vars

C1_Witness ==
    /\ last.op = "load_weekly_stats" /\ last.repeat
    /\ db.team_game_stats # {} /\ db.player_game_stats # {}

\* C2: a database fault in a batch insert of a load_weekly_stats call leaves
\* every table as it was before the call.
C2_NoPartialCommit ==
    [][(last'.op = "load_weekly_stats" /\ last'.error = "PersistenceFailure")
        => db' = db]_vars

\* C3: a stats row exists for a game and team only if the (season, week, team)
\* triple under which the schedule lookup lists them resolves to exactly one
\* game.
C3_ExactlyOneGame ==
    LET lookup == PrepareScheduleLookup(schedule)
        ok(game_id, team_id) ==
            LET triples == TriplesOf(lookup, NaturalIdOf(db, game_id),
                                     TeamCodeOf(db, team_id))
            IN  /\ triples # {}
                /\ \A t \in triples :
                      ResolvesToOneGame(lookup, t[1], t[2], TeamCodeOf(db, team_id))
    IN  /\ \A s \in db.team_game_stats : ok(s.game_id, s.team_id)
        /\ \A s \in db.player_game_stats : ok(s.game_id, s.team_id)

\* C4: at most one team_game_stats row per (game, team) and at most one
\* player_game_stats row per (game, player).
C4_OneRowPerKey ==
    /\ \A a, b \in db.team_game_stats :
          (a.game_id = b.game_id /\ a.team_id = b.team_id) => a = b
    /\ \A a, b \in db.player_game_stats :
          (a.game_id = b.game_id /\ a.player_id = b.player_id) => a = b

C4_Witness ==
    /\ last.op = "load_weekly_stats" /\ last.repeat
    /\ Cardinality(db.team_game_stats) >= 2
    /\ Cardinality(db.player_game_stats) >= 2

\* C5: a load_weekly_stats call without database fault raises no error,
\* whatever rows fail to resolve, and writes every row that does resolve.
C5_UnresolvedSkippedSilently ==
    (last.op = "load_weekly_stats" /\ last.error # "PersistenceFailure")
        => /\ last.error = ""
           /\ \A rec \in LastTeamRecords : \A k \in TeamStatSelect(db, rec) :
                 \E s \in db.team_game_stats :
                    s.game_id = k[1] /\ s.team_id = k[2]
           /\ \A rec \in LastPlayerRecords : \A k \in PlayerStatSelect(db, rec) :
                 \E s \in db.player_game_stats :
                    s.game_id = k.game_id /\ s.player_id = k.player_id

\* C6: load_games re-run over a feed whose games are all loaded already,
\* with whatever scores the feed now gives, leaves the number of Game rows
\* unchanged; each game keeps its row, surrogate key and natural game id,
\* and its points are the feed's scores.
C6_ScoresUpdatedInPlace ==
    [][(last'.op = "load_games" /\ last'.error = "" /\ last'.reingest)
        => /\ Cardinality(db'.games) = Cardinality(db.games)
           /\ \A i \in Indices(schedule) : \A g \in db.games :
                (StoredGame(db, g, schedule[i])
                    /\ InWindow(last'.target_weeks, schedule[i]))
                => \E h \in db'.games :
                      /\ h.game_id = g.game_id
                      /\ h.nflfast_game_id = g.nflfast_game_id
                      /\ h.home_points = schedule[i].home_score
                      /\ h.away_points = schedule[i].away_score]_vars

C6_Witness ==
    /\ last.op = "load_games" /\ last.error = ""
    /\ last.reingest /\ last.rewrote
    /\ \E i \in Indices(schedule) : \E g \in db.games :
          /\ StoredGame(db, g, schedule[i])
          /\ g.home_points = 31 /\ g.away_points = 28

\* C7: load_games always completes, a re-ingested game updating its row in
\* place, and no two Game rows share a natural game id or a (week, home,
\* away) triple.
C7_UpsertOnEitherKey ==
    /\ last.op = "load_games" => last.error = ""
    /\ \A a, b \in db.games :
          (a.nflfast_game_id = b.nflfast_game_id \/ SameMatchup(a, b)) => a = b

\* C8: after a load_weekly_stats call every player_game_stats row the call
\* addressed holds, in every column an insert writes (team and week
\* reference, position, statistics), the values of a record of this call.
C8_FullyReplaced ==
    (last.op = "load_weekly_stats" /\ last.error = "")
        => \A s \in db.player_game_stats :
              (\E rec \in LastPlayerRecords : \E k \in PlayerStatSelect(db, rec) :
                    k.game_id = s.game_id /\ k.player_id = s.player_id)
              => \E rec \in LastPlayerRecords : \E k \in PlayerStatSelect(db, rec) :
                    s = [player_game_stats_id |-> s.player_game_stats_id]
                            @@ k @@ PlayerStatValues(rec)

\* C9: every row the normalizer keeps has sacks_allowed equal to its own
\* source sack value (missing as 0) if its position group is QB and 0
\* otherwise, and def_sacks equal to its own source sack value if its
\* position group is DL, LB or DB and 0 otherwise.
C9_SacksOfOwnRow ==
    last.op = "_clean_weekly_frame"
        => \A j \in Indices(weekly_df.rows) :
              LET out == weekly_df.rows[j]
                  own == weekly.rows[out.source_row]
                  cols == weekly.columns
              IN  /\ out.sacks_allowed =
                        (IF QbMask(cols, own) THEN QbSacksValues(cols, own) ELSE 0)
                  /\ out.def_sacks =
                        (IF DefenderMask(cols, own)
                         THEN DefenderSacksValues(cols, own) ELSE 0)

\* C10: the normalized rows and the team aggregates are those of the same
\* frame with the rows of blank or missing player id, missing team code or
\* team code TOT removed.
C10_InvalidRowsExcluded ==
    last.op = "_clean_weekly_frame"
        => LET clean == CleanWeeklyFrame(WithoutInvalid(weekly), last.target_weeks)
           IN  /\ Contents(weekly_df.rows) = Contents(clean.rows)
               /\ AggregateTeamStats(weekly_df.rows) = AggregateTeamStats(clean.rows)

\* C11: every row the normalizer keeps has turnovers equal to its
\* interceptions (column interceptions, else passing_interceptions, else 0;
\* a missing value as 0) if its position group is QB and 0 otherwise, plus
\* its rushing, receiving and sack fumbles lost, each 0 when the column or
\* the value is absent.
C11_Turnovers ==
    last.op = "_clean_weekly_frame"
        => \A j \in Indices(weekly_df.rows) :
              LET out == weekly_df.rows[j]
                  own == weekly.rows[out.source_row]
                  cols == weekly.columns
                  picks == IF "interceptions" \in cols THEN own.interceptions
                           ELSE IF "passing_interceptions" \in cols
                           THEN own.passing_interceptions
                           ELSE 0
                  lost == [c \in {"rushing_fumbles_lost", "receiving_fumbles_lost",
                                  "sack_fumbles_lost"} |->
                              IF c \in cols /\ own[c] # NaN THEN own[c] ELSE 0]
              IN  out.turnovers =
                      (IF own.position_group = "QB" /\ picks # NaN THEN picks ELSE 0)
                      + lost["rushing_fumbles_lost"]
                      + lost["receiving_fumbles_lost"]
                      + lost["sack_fumbles_lost"]

C11_Witness ==
    /\ last.op = "_clean_weekly_frame" /\ last.error = ""
    /\ "interceptions" \notin weekly.columns
    /\ "sack_fumbles_lost" \notin weekly.columns
    /\ \E j \in Indices(weekly_df.rows) :
          /\ weekly_df.rows[j].position_group = "WR"
          /\ weekly_df.rows[j].interceptions = 2
          /\ weekly_df.rows[j].turnovers = 1
    /\ \E j \in Indices(weekly_df.rows) :
          /\ weekly_df.rows[j].position_group = "QB"
          /\ weekly_df.rows[j].turnovers = 2

\* C12: on a frame that has player_id, season, week and a team column the
\* normalizer ends without error whichever optional columns are absent; it
\* fails only when both team columns are absent, and the store is untouched.
C12_SchemaTolerant ==
    (last.op = "_clean_weekly_frame"
        /\ {"player_id", "season", "week"} \subseteq weekly.columns)
        => /\ (last.error # "") <=> ({"recent_team", "team"} \cap weekly.columns = {})
           /\ db = EmptyDb

\* C13 as stated: each team_game_stats row written by the last
\* load_weekly_stats call holds the exact sums of the normalized rows of its
\* (season, week, team) group, sacks made and allowed included, yards =
\* pass yards + rush yards, and the team's own score of the game as points.
C13_ExactSums ==
    (last.op = "load_weekly_stats" /\ last.error = "")
        => \A rec \in LastTeamRecords : \A k \in TeamStatSelect(db, rec) :
              \E s \in db.team_game_stats :
                 LET grp == {i \in Indices(weekly_df.rows) :
                                /\ weekly_df.rows[i].season = rec.season
                                /\ weekly_df.rows[i].week = rec.week
                                /\ weekly_df.rows[i].recent_team = rec.team_code}
                     sum(col) == SumColumn(weekly_df.rows, grp, col)
                 IN  /\ s.game_id = k[1] /\ s.team_id = k[2]
                     /\ s.pass_yards = sum("passing_yards")
                     /\ s.rush_yards = sum("rushing_yards")
                     /\ s.yards = s.pass_yards + s.rush_yards
                     /\ s.turnovers = sum("turnovers")
                     /\ 2 * s.sacks_allowed = sum("sacks_allowed")
                     /\ 2 * s.sacks_made = sum("def_sacks")
                     /\ \E i \in Indices(schedule) :
                           /\ schedule[i].game_id = rec.game_key
                           /\ \/ /\ schedule[i].home_team = rec.team_code
                                 /\ s.points = schedule[i].home_score
                              \/ /\ schedule[i].away_team = rec.team_code
                                 /\ s.points = schedule[i].away_score

\* C13 amended: the same, with each sum stored as the nearest whole number,
\* a half going to the even neighbour (1.5 sacks are stored as 2, 0.5 as 0).
C13_RoundedSums ==
    (last.op = "load_weekly_stats" /\ last.error = "")
        => \A rec \in LastTeamRecords : \A k \in TeamStatSelect(db, rec) :
              \E s \in db.team_game_stats :
                 LET grp == {i \in Indices(weekly_df.rows) :
                                /\ weekly_df.rows[i].season = rec.season
                                /\ weekly_df.rows[i].week = rec.week
                                /\ weekly_df.rows[i].recent_team = rec.team_code}
                     sum(col) == SumColumn(weekly_df.rows, grp, col)
                     nearest(h) == IF h % 2 = 0 THEN h \div 2
                                   ELSE IF (h \div 2) % 2 = 0 THEN h \div 2
                                   ELSE h \div 2 + 1
                 IN  /\ s.game_id = k[1] /\ s.team_id = k[2]
                     /\ s.pass_yards = sum("passing_yards")
                     /\ s.rush_yards = sum("rushing_yards")
                     /\ s.yards = s.pass_yards + s.rush_yards
                     /\ s.turnovers = sum("turnovers")
                     /\ s.sacks_allowed = nearest(sum("sacks_allowed"))
                     /\ s.sacks_made = nearest(sum("def_sacks"))
                     /\ \E i \in Indices(schedule) :
                           /\ schedule[i].game_id = rec.game_key
                           /\ \/ /\ schedule[i].home_team = rec.team_code
                                 /\ s.points = schedule[i].home_score
                              \/ /\ schedule[i].away_team = rec.team_code
                                 /\ s.points = schedule[i].away_score

\* The three loads on the whole fixture: the home team's row.
C13_Witness ==
    /\ last.op = "load_weekly_stats" /\ last.error = ""
    /\ weekly.rows = FixtureRows
    /\ \E s \in db.team_game_stats :
          /\ TeamCodeOf(db, s.team_id) = "KAN"
          /\ s.pass_yards = 280 /\ s.sacks_allowed = 2
          /\ s.sacks_made = 2 /\ s.turnovers = 1
          /\ s.yards = 320 /\ s.points = 24

\* C14: a load_weekly_stats call that completes, or that has written a stats
\* row, leaves for every player id of the normalized frame, resolved to a
\* game or not, exactly one players row, with the name and the position
\* (blank as none) this load supplies for the id.
C14_PlayersUpserted ==
    [][(last'.op = "load_weekly_stats"
          /\ \/ last'.error = ""
             \/ db'.team_game_stats # db.team_game_stats
             \/ db'.player_game_stats # db.player_game_stats)
        => \A i \in Indices(weekly_df'.rows) :
              LET row == weekly_df'.rows[i]
                  mine == {p \in db'.players : p.gsis_id = row.player_id}
              IN  /\ Cardinality(mine) = 1
                  /\ (\A k \in 1..(i - 1) : weekly_df'.rows[k].player_id # row.player_id)
                        => \A p \in mine :
                              /\ p.full_name = row.player_display_name
                              /\ p.position = (IF row.position = "" THEN NA
                                               ELSE row.position)]_vars

\* A reload has rewritten P1's name and blanked its position; P2, whose week
\* has no game, has its players row and no stats row.
C14_Witness ==
    /\ last.op = "load_weekly_stats" /\ last.error = "" /\ last.rewrote
    /\ \E p \in db.players :
          p.gsis_id = "P1" /\ p.full_name = "P. One" /\ p.position = NA
    /\ \E p \in db.players :
          /\ p.gsis_id = "P2"
          /\ \A s \in db.player_game_stats : s.player_id # p.player_id
    /\ db.player_game_stats # {}

\* C15: in every player_game_stats row a load_weekly_stats call has written,
\* a numeric field whose provider value is missing is NULL: pass attempts,
\* passing and rushing yards, interceptions thrown, sacks, and fumbles when
\* the three fumbles-lost values are missing.
C15_MissingStoredAsNull ==
    (last.op = "load_weekly_stats" /\ last.error = "")
        => \A i \in Indices(weekly_df.rows) :
              LET out == weekly_df.rows[i]
                  own == weekly.rows[out.source_row]
                  payload == PreparePlayerPayload(<<out>>, PrepareScheduleLookup(schedule))
              IN  \A n \in Indices(payload) :
                    \A k \in PlayerStatSelect(db, PlayerStatRecord(payload[n])) :
                       \E s \in db.player_game_stats :
                          /\ s.game_id = k.game_id /\ s.player_id = k.player_id
                          /\ own.attempts = NaN => s.pass_att = NaN
                          /\ own.passing_yards = NaN => s.pass_yds = NaN
                          /\ own.rushing_yards = NaN => s.rush_yds = NaN
                          /\ own.interceptions = NaN => s.int_thrown = NaN
                          /\ own.sacks = NaN => s.sacks = NaN
                          /\ (own.rushing_fumbles_lost = NaN
                                /\ own.receiving_fumbles_lost = NaN
                                /\ own.sack_fumbles_lost = NaN) => s.fumbles = NaN

\* C16: within one fetch the adapters of each season are called strictly in
\* the order nflreadpy, nfl_data_py, release; an adapter is called only
\* after every earlier one failed for that season; and the season's rows in
\* the fetched frame are those of the first adapter that succeeded.
C16_FallbackOrder ==
    \A season \in Seasons :
        LET made == Pick(calls, {i \in Indices(calls) : calls[i].season = season})
        IN  /\ Len(made) <= Len(Providers)
            /\ \A i \in Indices(made) :
                  /\ made[i].provider = Providers[i]
                  /\ i > 1 => ~made[i - 1].returned
            /\ (~fetched.raised /\ made # <<>>) =>
                  /\ made[Len(made)].returned
                  /\ LET rows == fetched.frame[1].rows
                     IN  Pick(rows, {n \in Indices(rows) : rows[n].season = season})
                            = ProviderFrame(Len(made), season).rows

C16_Witness ==
    /\ ~fetched.raised
    /\ fetched.key = <<SEASON - 1, SEASON>>
    /\ calls = <<Call(SEASON - 1, 1, FALSE), Call(SEASON - 1, 2, TRUE),
                 Call(SEASON, 1, FALSE), Call(SEASON, 2, FALSE), Call(SEASON, 3, TRUE)>>
    /\ fetched.frame[1].rows
          = ProviderFrame(2, SEASON - 1).rows \o ProviderFrame(3, SEASON).rows

\* C17: a load_weekly_stats call whose fetch goes through the chain ends in
\* the one RuntimeError exactly when, for some season of the range, all
\* three adapters were called and failed; the error then carries every
\* failure reason recorded during the fetch, no cache file is written or
\* changed, and every table is left as it was.
C17_ProviderUnavailable ==
    [][(last'.op = "load_weekly_stats" /\ fetched'.op = "load_weekly_stats") =>
          LET failed == Pick(calls', {i \in Indices(calls') : ~calls'[i].returned})
              exhausted ==
                \E season \in SeasonsOf(fetched'.key) :
                   \A p \in Indices(Providers) :
                      \E i \in Indices(calls') : calls'[i] = Call(season, p, FALSE)
          IN  /\ fetched'.raised <=> exhausted
              /\ (last'.error = "RuntimeError") <=> exhausted
              /\ fetched'.raised =>
                    /\ fetched'.errors
                         = [i \in Indices(failed) |->
                               <<failed[i].season, failed[i].provider>>]
                    /\ cache' = cache
                    /\ db' = db]_vars

C17_Witness ==
    /\ fetched.op = "load_weekly_stats"
    /\ fetched.raised
    /\ last.error = "RuntimeError"
    /\ \E i \in Indices(calls) : calls[i].season = SEASON - 1 /\ calls[i].returned
    /\ Len(fetched.errors) = 4
    /\ cache[fetched.key] = NoFile
    /\ db.games # {}

C19_LookupRegularSeasonOnly ==
    LET lookup == PrepareScheduleLookup(schedule)
        payload == PreparePlayerPayload(weekly_df.rows, lookup)
    IN  /\ \A k \in Indices(lookup) :
              \E i \in Indices(schedule) : schedule[i].game_id = lookup[k].game_id
        /\ \A i \in Indices(schedule) :
              LET g == schedule[i]
                  mine == Pick(lookup, {k \in Indices(lookup) :
                                           lookup[k].game_id = g.game_id})
              IN  IF IsDigitWeek(g.week)
                  THEN mine = <<[season |-> g.season, week |-> WeekNumberOf[g.week],
                                 team_code |-> g.home_team, game_id |-> g.game_id,
                                 points |-> g.home_score],
                                [season |-> g.season, week |-> WeekNumberOf[g.week],
                                 team_code |-> g.away_team, game_id |-> g.game_id,
                                 points |-> g.away_score]>>
                  ELSE /\ mine = <<>>
                       /\ \A n \in Indices(payload) : payload[n].game_id # g.game_id
                       /\ \A t \in db.team_game_stats \cup db.player_game_stats :
                             NaturalIdOf(db, t.game_id) # g.game_id

C19_Witness ==
    /\ schedule = <<GameRow("G1", "1", "KAN", <<NaN, NaN>>),
                    GameRow("G2", "WC", "DET", <<24, 17>>)>>
    /\ last.op = "load_weekly_stats"
    /\ last.error = ""
    /\ Len(PrepareScheduleLookup(schedule)) = 2
    /\ PrepareScheduleLookup(schedule)[1].points = NaN
    /\ \E t \in db.player_game_stats : NaturalIdOf(db, t.game_id) = "G1"
    /\ \E i \in Indices(weekly_df.rows) : weekly_df.rows[i].recent_team = "DET"

C22_LastWriterWins ==
    (\A i \in Invocations : running[i].pc = "done") =>
        LET lookup == PrepareScheduleLookup(schedule)
            players(i) == PlayerRecords(CleanedOf(i))
            teams(i) == TeamStatRecords(AggregateTeamStats(CleanedOf(i)), lookup)
            stats(i) == PreparePlayerPayload(CleanedOf(i), lookup)
        IN  /\ \A p, q \in db.players : p.gsis_id = q.gsis_id => p = q
            /\ \A t, u \in db.team_game_stats :
                  (t.game_id = u.game_id /\ t.team_id = u.team_id) => t = u
            /\ \A s, u \in db.player_game_stats :
                  (s.game_id = u.game_id /\ s.player_id = u.player_id) => s = u
            /\ \A p \in db.players :
                  \E i \in Invocations : \E n \in Indices(players(i)) :
                     p = [player_id |-> p.player_id] @@ players(i)[n]
            /\ \A t \in db.team_game_stats :
                  \E i \in Invocations : \E n \in Indices(teams(i)) :
                     \E k \in TeamStatSelect(db, teams(i)[n]) :
                        t = [team_game_stats_id |-> t.team_game_stats_id,
                             game_id |-> k[1], team_id |-> k[2]]
                               @@ TeamStatValues(teams(i)[n])
            /\ \A s \in db.player_game_stats :
                  \E i \in Invocations : \E n \in Indices(stats(i)) :
                     \E k \in PlayerStatSelect(db, PlayerStatRecord(stats(i)[n])) :
                        s = [player_game_stats_id |-> s.player_game_stats_id]
                               @@ k @@ PlayerStatValues(PlayerStatRecord(stats(i)[n]))

C25_MostRecentKickoff ==
    (cli.command = "resolve_target_week" /\ cli.outcome = "") =>
        LET number == WeekNumberOf @@ ("Wildcard" :> 19) @@ ("Divisional" :> 20)
                         @@ ("Conference Championships" :> 21) @@ ("Super Bowl" :> 22)
            played == {i \in Indices(schedule) :
                         /\ schedule[i].season \in {cli.as_of.year - 1, cli.as_of.year}
                         /\ schedule[i].week \in DOMAIN number
                         /\ schedule[i].gameday <= cli.as_of.at}
            newest == {i \in played :
                         \A k \in played : schedule[k].gameday <= schedule[i].gameday}
        IN  \E i \in newest :
               cli.target = WeekTarget(schedule[i].season, number[schedule[i].week])

\* C26: resolve_target_week ends in RuntimeError and returns no target when
\* the schedule of the candidate seasons is empty or none of its games has
\* kicked off at or before as_of.
C26_NothingPlayedYet ==
    cli.command = "resolve_target_week" =>
        LET mine == {i \in Indices(schedule) :
                        schedule[i].season \in {cli.as_of.year - 1, cli.as_of.year}}
        IN  (mine = {} \/ \A i \in mine : schedule[i].gameday > cli.as_of.at)
               => (cli.outcome = "RuntimeError" /\ cli.target = NoTarget)

\* The schedule has games, none of which has kicked off at as_of.
C26_Witness ==
    /\ cli.command = "resolve_target_week"
    /\ cli.outcome = "RuntimeError"
    /\ cli.target = NoTarget
    /\ schedule # <<>>
    /\ \A i \in Indices(schedule) :
          schedule[i].season = SEASON /\ schedule[i].gameday > cli.as_of.at

\* C24: a command given a malformed --as-of, a week outside 1..22 or a
\* season before 1999 ends in a parameter error without a schedule fetch,
\* a cache access or a database write.
C24_ValidationBeforeIO ==
    [][(/\ cli'.command \in {"update-week", "update-current"}
        /\ last'.op = cli'.command
        /\ \/ ParseAsOf(cli'.as_of).error # ""
           \/ (cli'.week # NaN /\ (cli'.week < MinWeek \/ cli'.week > MaxWeek))
           \/ (cli'.season # NaN /\ cli'.season < MinSeason))
          => (cli'.outcome = "BadParameter" /\ ~cli'.io /\ db' = db)]_vars

\* C27: the timeline entries are in ascending (season, week) order; the
\* team events are the runs of consecutive entries of one team, so adjacent
\* events differ in team and each event starts at the first and ends at the
\* last entry of its run; an unknown player id is answered 404 "Player not
\* found".
C27_TimelineAndTeamEvents ==
    (cli.command = "get_player_timeline" /\ last.op = "get_player_timeline") =>
        LET response == cli.body[1]
            tl == response.timeline
            ev == response.team_events
            starts == Pick([i \in Indices(tl) |-> i],
                           {i \in Indices(tl) :
                               i = 1 \/ tl[i - 1].team_code # tl[i].team_code})
            endOf(k) == IF k = Len(starts) THEN Len(tl) ELSE starts[k + 1] - 1
        IN  IF \A p \in db.players : p.player_id # cli.player_id
            THEN response.status = 404 /\ response.detail = "Player not found"
            ELSE /\ response.status = 200
                 /\ \A i, j \in Indices(tl) :
                       i < j => \/ tl[i].season < tl[j].season
                                \/ /\ tl[i].season = tl[j].season
                                   /\ tl[i].week <= tl[j].week
                 /\ \A k \in Indices(ev) :
                       k > 1 => ev[k - 1].team_code # ev[k].team_code
                 /\ Len(ev) = Len(starts)
                 /\ \A k \in Indices(ev) :
                       /\ ev[k].team_code = tl[starts[k]].team_code
                       /\ ev[k].start_season = tl[starts[k]].season
                       /\ ev[k].start_week = tl[starts[k]].week
                       /\ ev[k].end_season = tl[endOf(k)].season
                       /\ ev[k].end_week = tl[endOf(k)].week

\* A timeline of two weeks with one team: one event from the first week to
\* the second.
C27_Witness ==
    /\ cli.command = "get_player_timeline"
    /\ last.op = "get_player_timeline"
    /\ Len(cli.body[1].timeline) = 2
    /\ Len(cli.body[1].team_events) = 1
    /\ cli.body[1].team_events[1].start_week = 1
    /\ cli.body[1].team_events[1].end_week = 2

\* A timeline with two entries of one week, the second listed first.
C27_WitnessSameWeek ==
    /\ cli.command = "get_player_timeline"
    /\ last.op = "get_player_timeline"
    /\ Len(cli.body[1].timeline) = 2
    /\ cli.body[1].timeline[1].week = cli.body[1].timeline[2].week
    /\ cli.body[1].timeline[1].team_code = "KAN"
    /\ Len(cli.body[1].team_events) = 2

\* A request for a player id that has no players row.
C27_WitnessUnknown ==
    /\ cli.command = "get_player_timeline"
    /\ last.op = "get_player_timeline"
    /\ db.players # {}
    /\ cli.body[1].status = 404

C28_Witness ==
    /\ last.op = "load_games"
    /\ last.error = ""
    /\ last.target_weeks = TargetWeeks({1})
    /\ \E g \in db.games : WeekOfGame(db, g.game_id) = 2
    /\ \E g \in db.games : WeekOfGame(db, g.game_id) = 1

\* load_games on a store without weeks and teams, the feed listing games.
C28_WitnessBeforeWeeks ==
    /\ last.op = "load_games"
    /\ last.error = ""
    /\ schedule # <<>>
    /\ db.weeks = {}
    /\ db.games = {}

C29_NeverDeletes ==
    [][last'.op = "load_weekly_stats" =>
          LET gamesOf(row) ==
                  {schedule[i].game_id : i \in {k \in Indices(schedule) :
                      /\ IsDigitWeek(schedule[k].week)
                      /\ WeekNumberOf[schedule[k].week] = row.week
                      /\ schedule[k].season = row.season
                      /\ row.recent_team \in {schedule[k].home_team,
                                               schedule[k].away_team}}}
              keyOf(game_id) ==
                  (CHOOSE g \in db.games : g.game_id = game_id).nflfast_game_id
              codeOf(team_id) ==
                  (CHOOSE t \in db.teams : t.team_id = team_id).team_code
              gsisOf(player_id) ==
                  (CHOOSE p \in db.players : p.player_id = player_id).gsis_id
              rows == {weekly.rows[i] : i \in Indices(weekly.rows)}
          IN  /\ \A p \in db.players :
                    /\ \E q \in db'.players : q.gsis_id = p.gsis_id
                    /\ (\A row \in rows : row.player_id # p.gsis_id)
                          => p \in db'.players
              /\ \A s \in db.team_game_stats :
                    /\ \E t \in db'.team_game_stats :
                          t.game_id = s.game_id /\ t.team_id = s.team_id
                    /\ (\A row \in rows :
                            ~(/\ row.recent_team = codeOf(s.team_id)
                              /\ keyOf(s.game_id) \in gamesOf(row)))
                          => s \in db'.team_game_stats
              /\ \A s \in db.player_game_stats :
                    /\ \E t \in db'.player_game_stats :
                          t.game_id = s.game_id /\ t.player_id = s.player_id
                    /\ (\A row \in rows :
                            ~(/\ row.player_id = gsisOf(s.player_id)
                              /\ keyOf(s.game_id) \in gamesOf(row)))
                          => s \in db'.player_game_stats]_vars

\* A load whose frame no longer lists a stored player: his players row and
\* his statistics row are still there after a load that wrote other rows.
C29_Witness ==
    /\ last.op = "load_weekly_stats"
    /\ last.error = ""
    /\ weekly.rows # <<>>
    /\ \E p \in db.players :
          /\ \A i \in Indices(weekly.rows) : weekly.rows[i].player_id # p.gsis_id
          /\ \E s \in db.player_game_stats : s.player_id = p.player_id
    /\ \E p \in db.players :
          /\ \E i \in Indices(weekly.rows) : weekly.rows[i].player_id = p.gsis_id
          /\ \E s \in db.player_game_stats : s.player_id = p.player_id

\* C30: a staged load that commits its staging step leaves in
\* nfl_weekly_stats the rows of the other seasons and, with target weeks,
\* of the other weeks as they were, and for the seasons of the frame (and
\* the target weeks) exactly the rows of the frame; a failed step and an
\* empty frame leave the table as it was, and staging the same frame again
\* leaves what staging it once left.
C30_StagingReplaces ==
    [][last'.op \in {"backfill", "load_weekly_stats_staged"} =>
          LET tw == last'.target_weeks
              valid(r) == /\ r.player_id \notin {NA, ""}
                          /\ r.recent_team \notin {NA, "TOT"}
                          /\ (tw.given => r.week \in tw.weeks)
              frame == Pick(weekly.rows, {i \in Indices(weekly.rows) :
                                            valid(weekly.rows[i])})
              seasons == {frame[i].season : i \in Indices(frame)}
              inside(r) == /\ r.season \in seasons
                           /\ (tw.given => r.week \in tw.weeks)
              outside(r) == ~inside(r)
              replaced ==
                  /\ Remove(staging', inside) = Remove(staging, inside)
                  /\ Len(Remove(staging', outside)) = Len(frame)
                  /\ \A i \in Indices(frame) :
                        LET s == Remove(staging', outside)[i]
                        IN  /\ s.season = frame[i].season
                            /\ s.week = frame[i].week
                            /\ s.player_id = frame[i].player_id
                            /\ s.team = frame[i].recent_team
                            /\ s.passing_yards = frame[i].passing_yards
          IN  /\ frame = <<>> => staging' = staging
              /\ staging' = staging \/ replaced
              /\ last'.error = "" => replaced
              /\ last'.repeat => staging' = staging]_vars

\* The frame of the season's two weeks staged twice in a row on a table
\* that held a row of the season before: that row and one copy of the frame.
C30_Witness ==
    /\ last.op = "backfill"
    /\ last.repeat
    /\ Len(weekly.rows) = 2
    /\ \A i \in Indices(weekly.rows) : weekly.rows[i].season = SEASON
    /\ Len(staging) = 3
    /\ staging[1].season = SEASON - 1

\* The week-1 row staged twice in a row with target week 1 on a table that
\* held a row of week 2.
C30_WitnessWeek ==
    /\ last.op = "load_weekly_stats_staged"
    /\ last.repeat
    /\ last.target_weeks = TargetWeeks({1})
    /\ Len(staging) = 2
    /\ staging[1].season = SEASON /\ staging[1].week = 2
    /\ staging[2].season = SEASON /\ staging[2].week = 1

====
